---- MODULE Spec2Model ----
(***************************************************************************)
(* EOQL: the epistemic query pipeline.                                     *)
(*   builder -> EOQLQuery (IR) -> validate_query -> PostgresCompiler       *)
(*   .compile -> SQLPlan -> the staged SQL evaluated over a store.         *)
(* The SQL text a stage emits is modelled by its structure (sources,       *)
(* conditions, uniqueness operators) and, for the grounding and the        *)
(* visibility stages, by its relational meaning over small tables.         *)
(***************************************************************************)
EXTENDS Integers, Sequences, FiniteSets, TLC

VARIABLES
    pc,        \* position in the pipeline
    bstate,    \* QueryBuilder._state
    q,         \* the EOQLQuery in hand (NoQuery before construction)
    errors,    \* EOQLValidationError.errors of the last validation
    plan,      \* the SQLPlan of the last compile (NoPlan before)
    pf,        \* rows of the pattern_filtered stage
    gc,        \* the grounding_chains relation: <<target_id, grounded_by_id>>
    work,      \* working table of the recursive CTE grounding_traverse
    gt,        \* rows of grounding_traverse accumulated so far
    iter,      \* recursive iterations of grounding_traverse run so far
    wg,        \* rows of the with_grounding stage
    vf,        \* rows of the visibility_filtered stage
    entities,     \* the entities table
    expectations, \* the expectations table
    absences,     \* outcome of the computed_absences stage
    connection,     \* PostgresExecutor._connection: "none" or "open"
    autocommit,     \* the connection's autocommit attribute
    store_rows,     \* the rows the store holds for the plan's statement
    in_transaction, \* PostgresExecutor._in_transaction
    last,           \* the last call made on the executor and how it ended
    result,         \* the QueryResult the last execute returned
    store,      \* InMemoryFrameStore._frames, as the set of definitions held
    cache,      \* FrameRegistry._cache: <<cache key, definition>> pairs
    reg_last,   \* the last registry call made by a single caller, and its outcome
    threads,    \* the registry calls in progress, by thread
    call,       \* a call of a function of the library: its name and arguments
    ret         \* what that call returned (NoCall before it ran)

vars == <<pc, bstate, q, errors, plan, pf, gc, work, gt, iter, wg, vf,
          entities, expectations, absences,
          connection, autocommit, store_rows, in_transaction, last, result,
          store, cache, reg_last, threads, call, ret>>

pipeVars == <<bstate, q, errors, plan>>
storeVars == <<pf, gc, work, gt, iter, wg, vf>>
absVars == <<entities, expectations, absences>>
execVars == <<connection, autocommit, store_rows, in_transaction, last, result>>
regVars == <<store, cache, reg_last, threads>>
fnVars == <<call, ret>>
restVars == <<absVars, execVars, regVars, fnVars>>

----------------------------------------------------------------------------
(* Bounds of the model *)

\* largest grounding.max_depth a query of the model asks for
MaxDepth == 4

\* most rows the store returns for one statement
MaxRows == 3

----------------------------------------------------------------------------
(* Python values *)

\* None
NULL == "<None>"

\* Python truthiness of an Optional[str]: None and "" are falsy
Truthy(s) == s # NULL /\ s # ""

\* Optional[T] for a dataclass T: <<>> is None, <<x>> is x
None == <<>>
Some(x) == <<x>>
IsNone(o) == o = <<>>
The(o) == o[1]

\* x or y, for Optional[str]
OrElse(x, y) == IF Truthy(x) THEN x ELSE y

Range(s) == {s[i] : i \in DOMAIN s}

----------------------------------------------------------------------------
(* eoql/ir/model.py *)

Target == {"CLAIMS", "EDGES", "ENTITIES", "ASSERTIONS", "ABSENCES"}
Mode == {"GIVEN", "MEANT"}
Visibility == {"VISIBLE", "EXISTS"}
TimeKind == {"AS_OF", "BETWEEN"}
ConflictPolicy == {"EXPOSE_ALL", "CLUSTER", "RANK", "PICK_ONE"}

FrameRef(frame_id, version) == [frame_id |-> frame_id, version |-> version]

TimeWindow(kind, as_of, start, end) ==
    [kind |-> kind, as_of |-> as_of, start |-> start, end |-> end]

\* TimeWindow.asof / TimeWindow.between
asof(ts) == TimeWindow("AS_OF", ts, NULL, NULL)
between(start, end) == TimeWindow("BETWEEN", NULL, start, end)

\* value is a tagged Python value: t is "str", "num" or "strlist" (a list or
\* tuple of str), v the sequence of its elements (one for a scalar)
Predicate(field, op, value) == [field |-> field, op |-> op, value |-> value]
StrVal(s) == [t |-> "str", v |-> <<s>>]
NumVal(s) == [t |-> "num", v |-> <<s>>]
StrList(l) == [t |-> "strlist", v |-> l]

Pattern(match, where) == [match |-> match, where |-> where]

GroundingSpec(trace, max_depth, grounded_by) ==
    [trace |-> trace, max_depth |-> max_depth, grounded_by |-> grounded_by]

SelectionRule(rule_id) == [rule_id |-> rule_id]

ReturnSpec(conflict_policy, selection_rule) ==
    [conflict_policy |-> conflict_policy, selection_rule |-> selection_rule]

ExpectationRef(expectation_id, version) ==
    [expectation_id |-> expectation_id, version |-> version]

\* scope is a dict: the sequence of its <<key, value>> items in insertion order
AbsenceSpec(expectation, scope) == [expectation |-> expectation, scope |-> scope]

EOQLQuery(target, mode, visibility, frame, time, pattern, grounding, absence, returns) ==
    [target |-> target, mode |-> mode, visibility |-> visibility, frame |-> frame,
     time |-> time, pattern |-> pattern, grounding |-> grounding,
     absence |-> absence, returns |-> returns]

\* dict.__eq__: the same keys with the same values, whatever the insertion order
DictEq(d1, d2) == Range(d1) = Range(d2)

\* the dataclass-generated EOQLQuery.__eq__ (field by field)
QueryEq(a, b) ==
    /\ a.target = b.target /\ a.mode = b.mode /\ a.visibility = b.visibility
    /\ a.frame = b.frame /\ a.time = b.time
    /\ a.pattern = b.pattern /\ a.grounding = b.grounding
    /\ a.returns = b.returns
    /\ IsNone(a.absence) = IsNone(b.absence)
    /\ ~IsNone(a.absence) =>
          /\ The(a.absence).expectation = The(b.absence).expectation
          /\ DictEq(The(a.absence).scope, The(b.absence).scope)

----------------------------------------------------------------------------
(* eoql/ir/validation.py *)

E_FRAME == "I1: frame.frame_id must be non-empty."
E_MODE == "I3: mode (GIVEN/MEANT) must be provided."
E_VISIBILITY == "I4: visibility (VISIBLE/EXISTS) must be provided."
E_ASOF_MISSING == "I2: AS_OF time requires time.as_of."
E_ASOF_EXTRA == "I2: AS_OF must not include start/end."
E_BETWEEN_MISSING == "I2: BETWEEN time requires time.start and time.end."
E_BETWEEN_EXTRA == "I2: BETWEEN must not include as_of."
E_TIME_KIND == "I2: Unsupported time.kind."
E_TRACE == "I6: TRACE requires grounding.max_depth >= 1."
E_GROUNDED_BY == "I6: GROUNDED BY predicates must have field and op."
E_ABSENCE_SPEC == "I5: ABSENCES target requires absence spec."
E_EXPECTATION == "I5: absence.expectation.expectation_id must be provided."
E_PICK_ONE == "I7: PICK_ONE requires returns.selection_rule."
E_RULE_ID == "I7: selection_rule.rule_id must be non-empty."

\* errors.append(e) if cond
AppendIf(errs, cond, e) == IF cond THEN Append(errs, e) ELSE errs

\* for p in grounded_by: if not p.field or not p.op: errors.append(...)
RECURSIVE GroundedByErrors(_, _)
GroundedByErrors(errs, preds) ==
    IF preds = <<>> THEN errs
    ELSE GroundedByErrors(
            AppendIf(errs, ~Truthy(Head(preds).field) \/ ~Truthy(Head(preds).op),
                     E_GROUNDED_BY),
            Tail(preds))

\* _validate_absence
validate_absence(absence, errs) ==
    AppendIf(errs, ~Truthy(absence.expectation.expectation_id), E_EXPECTATION)

\* TimeErrors without the checks for fields the kind must not carry
TimeErrorsMissingOnly(errs, t) ==
    IF t.kind = "AS_OF"
    THEN AppendIf(errs, ~Truthy(t.as_of), E_ASOF_MISSING)
    ELSE IF t.kind = "BETWEEN"
    THEN AppendIf(errs, ~(Truthy(t.start) /\ Truthy(t.end)), E_BETWEEN_MISSING)
    ELSE Append(errs, E_TIME_KIND)

TimeErrors(errs, t) ==
    IF t.kind = "AS_OF"
    THEN AppendIf(AppendIf(errs, ~Truthy(t.as_of), E_ASOF_MISSING),
                  Truthy(t.start) \/ Truthy(t.end), E_ASOF_EXTRA)
    ELSE IF t.kind = "BETWEEN"
    THEN AppendIf(AppendIf(errs, ~(Truthy(t.start) /\ Truthy(t.end)), E_BETWEEN_MISSING),
                  Truthy(t.as_of), E_BETWEEN_EXTRA)
    ELSE Append(errs, E_TIME_KIND)

\* an absence check made for the ABSENCES target only
AbsenceErrorsForTargetOnly(errs, qq) ==
    IF qq.target = "ABSENCES"
    THEN IF IsNone(qq.absence)
         THEN Append(errs, E_ABSENCE_SPEC)
         ELSE validate_absence(The(qq.absence), errs)
    ELSE errs

AbsenceErrors(errs, qq) ==
    IF qq.target = "ABSENCES" \/ ~IsNone(qq.absence)
    THEN IF IsNone(qq.absence)
         THEN Append(errs, E_ABSENCE_SPEC)
         ELSE validate_absence(The(qq.absence), errs)
    ELSE errs

\* a PICK_ONE check that accepts any selection rule that is present
ConflictErrorsAbsentOnly(errs, r) ==
    IF r.conflict_policy = "PICK_ONE"
    THEN AppendIf(errs, IsNone(r.selection_rule), E_PICK_ONE)
    ELSE errs

ConflictErrors(errs, r) ==
    IF r.conflict_policy = "PICK_ONE"
    THEN IF IsNone(r.selection_rule)
         THEN Append(errs, E_PICK_ONE)
         ELSE AppendIf(errs, ~Truthy(The(r.selection_rule).rule_id), E_RULE_ID)
    ELSE errs

\* a validate_query that raises at the first violation it finds
ValidationErrorsFirstOnly(qq) ==
    LET e0 == AppendIf(<<>>, ~Truthy(qq.frame.frame_id), E_FRAME)
        e2 == TimeErrors(e0, qq.time)
        e3 == AppendIf(e2, qq.grounding.trace /\ qq.grounding.max_depth < 1, E_TRACE)
        e4 == GroundedByErrors(e3, qq.grounding.grounded_by)
        e5 == AbsenceErrors(e4, qq)
        all == ConflictErrors(e5, qq.returns)
    IN  IF all = <<>> THEN <<>> ELSE <<all[1]>>

\* validate_query: the list of errors it collects; it raises
\* EOQLValidationError(errors) exactly when the list is non-empty
\* (q.time is a dataclass instance and never falsy: "I2: time must be provided."
\* cannot be appended)
ValidationErrors(qq) ==
    LET e0 == AppendIf(<<>>, ~Truthy(qq.frame.frame_id), E_FRAME)
        e1 == AppendIf(AppendIf(e0, ~Truthy(qq.mode), E_MODE),
                       ~Truthy(qq.visibility), E_VISIBILITY)
        e2 == TimeErrors(e1, qq.time)
        e3 == AppendIf(e2, qq.grounding.trace /\ qq.grounding.max_depth < 1, E_TRACE)
        e4 == GroundedByErrors(e3, qq.grounding.grounded_by)
        e5 == AbsenceErrors(e4, qq)
    IN  ConflictErrors(e5, qq.returns)

Raises(qq) == ValidationErrors(qq) # <<>>

----------------------------------------------------------------------------
(* eoql/backends/sql/postgres.py: PostgresCompiler                          *)
(* A CTE is the record of what its SQL text says: the relations it selects  *)
(* from, its WHERE conditions in order, the uniqueness operator it applies  *)
(* ("" for none) and its select list.                                       *)

Cte(name, from, where, uniq, cols) ==
    [name |-> name, from |-> from, where |-> where, uniq |-> uniq, cols |-> cols]

\* one rendered SQL condition; quoted: the value is put between '...'
Cond(form, col, op, val, quoted) ==
    [form |-> form, col |-> col, op |-> op, val |-> val, quoted |-> quoted]

\* _compile_time_projection
compile_time_projection(qq) ==
    IF qq.time.kind = "AS_OF"
    THEN Cte("event_replay", <<"assertions">>,
             <<Cond("cmp", "asserted_at", "<=", <<qq.time.as_of>>, TRUE)>>, "", <<"*">>)
    ELSE Cte("event_replay", <<"assertions">>,
             <<Cond("between", "asserted_at", "BETWEEN", <<qq.time.start, qq.time.end>>, TRUE)>>,
             "", <<"*">>)

\* _compile_frame_application
compile_frame_application(qq) ==
    Cte("framed_projection", <<"event_replay">>,
        <<Cond("cmp", "frame_id", "=", <<qq.frame.frame_id>>, TRUE)>>, "", <<"*">>)

\* _compile_mode_filter
compile_mode_filter(qq) ==
    IF qq.mode = "GIVEN"
    THEN Cte("mode_filtered", <<"framed_projection">>,
             <<Cond("cmp", "assertion_mode", "=", <<"GIVEN">>, TRUE)>>, "", <<"*">>)
    ELSE Cte("mode_filtered", <<"framed_projection">>, <<>>, "", <<"*">>)

\* _map_field
map_field(field) ==
    CASE field = "claim_type" -> "claim_type"
      [] field = "source.type" -> "source_id"
      [] field = "epistemic.method" -> "method"
      [] field = "epistemic.certainty" -> "certainty"
      [] field = "term" -> "claim_content->>'term'"
      [] field = "value" -> "claim_content->>'value'"
      [] OTHER -> field

\* str.upper() on the operator spellings of the model
Upper(op) ==
    CASE op = "in" -> "IN"
      [] op = "contains" -> "CONTAINS"
      [] op = "is null" -> "IS NULL"
      [] op = "is not null" -> "IS NOT NULL"
      [] op = "like" -> "LIKE"
      [] OTHER -> op

\* _compile_predicate
compile_predicate(pred) ==
    LET field == map_field(pred.field)
        op == Upper(pred.op)
        value == pred.value
        isstr == value.t = "str"
    IN  CASE op = "=" -> Cond("cmp", field, "=", value.v, isstr)
          [] op = "!=" -> Cond("cmp", field, "!=", value.v, isstr)
          [] op = "IN" -> Cond("in", field, "IN", value.v, value.t = "strlist")
          [] op \in {">=", ">", "<=", "<"} -> Cond("cmp", field, op, value.v, isstr)
          [] op = "CONTAINS" -> Cond("ilike", field, "ILIKE", value.v, TRUE)
          [] op = "IS NULL" -> Cond("isnull", field, "IS NULL", <<>>, FALSE)
          [] op = "IS NOT NULL" -> Cond("isnull", field, "IS NOT NULL", <<>>, FALSE)
          [] OTHER -> Cond("cmp", field, "=", value.v, isstr)

compile_predicates(preds) == [i \in DOMAIN preds |-> compile_predicate(preds[i])]

\* _compile_pattern
compile_pattern(qq) ==
    LET m == IF Truthy(qq.pattern.match)
             THEN <<Cond("ilike", "claim_content::text", "ILIKE", <<qq.pattern.match>>, TRUE)>>
             ELSE <<>>
    IN  Cte("pattern_filtered", <<"mode_filtered">>,
            m \o compile_predicates(qq.pattern.where), "", <<"*">>)

\* the pass-through CTEs compile() writes itself
PatternPassThrough == Cte("pattern_filtered", <<"mode_filtered">>, <<>>, "", <<"*">>)
GroundingPassThrough ==
    Cte("with_grounding", <<"pattern_filtered">>, <<>>, "",
        <<"pf.*", "NULL AS grounding_path", "0 AS grounding_depth">>)

\* _compile_grounding_traversal: the recursive CTE and the CTE that selects from it
compile_grounding_traversal(qq) ==
    <<Cte("grounding_traverse",
          <<"pattern_filtered", "grounding_traverse", "grounding_chains">>,
          <<Cond("isnull", "pf.grounding_ref", "IS NOT NULL", <<>>, FALSE),
            Cond("cmp", "gt.grounding_depth", "<", <<ToString(qq.grounding.max_depth)>>, FALSE),
            Cond("notany", "gc.grounded_by_id", "NOT = ANY", <<"gt.grounding_path">>, FALSE)>>,
          "", <<"columns", "grounding_path", "grounding_depth">>),
      Cte("with_grounding", <<"grounding_traverse", "pattern_filtered">>,
          compile_predicates(qq.grounding.grounded_by)
            \o <<Cond("isnull", "pf.grounding_ref", "IS NULL", <<>>, FALSE)>>,
          "DISTINCT ON (assertion_id)", <<"columns", "grounding_path", "grounding_depth">>)>>

\* a visibility CTE that reads pattern_filtered, passing the grounding phase by
compile_visibility_cte_skipping(qq) ==
    IF qq.visibility = "VISIBLE"
    THEN Cte("visibility_filtered", <<"pattern_filtered">>,
             <<Cond("cmp", "visibility_scope", "=", <<"visible">>, TRUE)>>, "", <<"*">>)
    ELSE Cte("visibility_filtered", <<"pattern_filtered">>, <<>>, "", <<"*">>)

\* _compile_visibility_cte
compile_visibility_cte(qq) ==
    IF qq.visibility = "VISIBLE"
    THEN Cte("visibility_filtered", <<"with_grounding">>,
             <<Cond("cmp", "visibility_scope", "=", <<"visible">>, TRUE)>>, "", <<"*">>)
    ELSE Cte("visibility_filtered", <<"with_grounding">>, <<>>, "",
             <<"*", "CASE WHEN visibility_scope != 'visible' THEN 'hidden:' || visibility_scope ELSE NULL END AS visibility_note">>)

\* for k, v in q.absence.scope.items(): the conditions, in the dict's order
scope_filter(scope) ==
    [i \in DOMAIN scope |->
        Cond("cmp", scope[i][1], "=", <<scope[i][2]>>, TRUE)]

\* _compile_absence_computation
compile_absence_computation(qq) ==
    LET exp == The(qq.absence).expectation
        id == exp.expectation_id
    IN  <<Cte("expected_entities", <<"entities", "expectations">>,
              <<Cond("cmp", "exp.expectation_id", "=", <<id>>, TRUE),
                Cond("entity_filter", "e.entity_type", "=", <<"exp.rule->>'entity_filter'">>, FALSE)>>
                \o scope_filter(The(qq.absence).scope),
              "", <<"e.entity_id", "e.entity_type", "e.label">>),
          Cte("actual_claims", <<"visibility_filtered", "expectations">>,
              <<Cond("cmp", "exp.expectation_id", "=", <<id>>, TRUE),
                Cond("cmp", "vf.claim_type", "=", <<"exp.rule->>'claim_type'">>, FALSE)>>,
              "DISTINCT", <<"vf.subject_id">>),
          Cte("computed_absences", <<"expected_entities", "actual_claims", "expectations">>,
              <<Cond("isnull", "ac.subject_id", "IS NULL", <<>>, FALSE)>>,
              "",
              <<id, OrElse(exp.version, "latest"),
                OrElse(qq.time.start, qq.time.as_of), OrElse(qq.time.end, qq.time.as_of),
                qq.frame.frame_id, OrElse(qq.frame.version, "latest")>>)>>

Projection(cols, uniq, from) == [cols |-> cols, uniq |-> uniq, from |-> from]

\* _compile_final_projection
compile_final_projection(qq) ==
    IF qq.target = "ABSENCES" /\ ~IsNone(qq.absence)
    THEN Projection(<<"*">>, "", "computed_absences")
    ELSE IF qq.target = "CLAIMS"
    THEN Projection(<<"columns", "grounding_path", "grounding_depth">>, "", "visibility_filtered")
    ELSE IF qq.target = "ENTITIES"
    THEN Projection(<<"subject_id AS entity_id", "claim_type", "claim_content", "frame_id">>,
                    "DISTINCT", "visibility_filtered")
    ELSE Projection(<<"*">>, "", "visibility_filtered")

\* what follows the final SELECT ... FROM: kind "" (nothing), "comment" (an SQL
\* comment) or "clause" (SQL that acts on the rows)
Guard(kind, text) == [kind |-> kind, text |-> text]

\* a conflict guard that performs the pick for PICK_ONE
compile_conflict_policy_picking(qq) ==
    CASE qq.returns.conflict_policy = "CLUSTER" ->
            Guard("comment", "-- conflict clustering applied downstream")
      [] qq.returns.conflict_policy = "RANK" ->
            Guard("comment", "-- ranked results, alternates preserved")
      [] qq.returns.conflict_policy = "PICK_ONE" ->
            Guard("clause", "ORDER BY certainty DESC LIMIT 1")
      [] OTHER -> Guard("", "")

\* _compile_conflict_policy
compile_conflict_policy(qq) ==
    CASE qq.returns.conflict_policy = "EXPOSE_ALL" -> Guard("", "")
      [] qq.returns.conflict_policy = "CLUSTER" ->
            Guard("comment", "-- conflict clustering applied downstream")
      [] qq.returns.conflict_policy = "RANK" ->
            Guard("comment", "-- ranked results, alternates preserved")
      [] qq.returns.conflict_policy = "PICK_ONE" ->
            Guard("comment", "-- single selection WITH explicit rule")
      [] OTHER -> Guard("", "")

\* the context dict compile() builds for the executor
PlanContext(qq) ==
    [frame_id |-> qq.frame.frame_id,
     frame_version |-> OrElse(qq.frame.version, "latest"),
     time_projection |-> qq.time.kind,
     time_value |-> IF Truthy(qq.time.as_of) THEN <<qq.time.as_of>>
                    ELSE <<qq.time.start, " - ", qq.time.end>>,
     visibility |-> qq.visibility,
     mode |-> qq.mode,
     conflict_policy |-> qq.returns.conflict_policy]

\* PostgresCompiler.compile: the phases in the order the method runs them. It
\* holds no state and does not call validate_query.
Compile(qq) ==
    LET hasPattern == qq.pattern.where # <<>> \/ Truthy(qq.pattern.match)
        hasAbsence == qq.target = "ABSENCES" /\ ~IsNone(qq.absence)
        guard == compile_conflict_policy(qq)
        c1 == <<compile_time_projection(qq)>>
        c2 == Append(c1, compile_frame_application(qq))
        c3 == Append(c2, compile_mode_filter(qq))
        c4 == Append(c3, IF hasPattern THEN compile_pattern(qq) ELSE PatternPassThrough)
        c5 == IF qq.grounding.trace
              THEN c4 \o compile_grounding_traversal(qq)
              ELSE Append(c4, GroundingPassThrough)
        c6 == Append(c5, compile_visibility_cte(qq))
        c7 == IF hasAbsence THEN c6 \o compile_absence_computation(qq) ELSE c6
        notes ==
            <<<<"Time projection enforced via event replay CTE">>,
              <<"Frame '", qq.frame.frame_id, "' applied explicitly">>,
              <<"Mode '", qq.mode, "' applied">>>>
            \o (IF hasPattern THEN <<<<"Pattern filters applied">>>> ELSE <<>>)
            \o (IF qq.grounding.trace
                THEN <<<<"Grounding trace enabled (depth: ", ToString(qq.grounding.max_depth), ")">>>>
                ELSE <<>>)
            \o <<<<"Visibility '", qq.visibility, "' applied">>>>
            \o (IF hasAbsence THEN <<<<"Absence computed from expectation">>>> ELSE <<>>)
            \o (IF guard.text # ""
                THEN <<<<"Conflict policy preserved (no silent collapse)">>>> ELSE <<>>)
    IN  [sql |-> [ctes |-> c7, final |-> compile_final_projection(qq), guard |-> guard],
         params |-> <<>>,
         notes |-> notes,
         context |-> PlanContext(qq)]

----------------------------------------------------------------------------
(* Queries the validator is run on: every combination of well-typed field   *)
(* values, valid or not, as EOQLQuery(...) can be constructed directly.     *)

GoodPred == Predicate("source.type", "=", StrVal("sensor"))
NoFieldPred == Predicate("", "=", StrVal("sensor"))
NoOpPred == Predicate("method", "", StrVal("manual"))

ValidationTimes ==
    {TimeWindow(k, a, s, e) : k \in TimeKind, a \in {NULL, "", "t1"},
                              s \in {NULL, "t1"}, e \in {NULL, "t2"}}

ValidationGroundings ==
    {GroundingSpec(t, d, g) : t \in BOOLEAN, d \in {0, 1, 2},
        g \in {<<>>, <<GoodPred>>, <<NoFieldPred>>, <<GoodPred, NoOpPred>>,
               <<NoFieldPred, NoOpPred>>}}

ValidationAbsences ==
    {None} \cup {Some(AbsenceSpec(ExpectationRef(i, NULL), <<>>)) :
                    i \in {NULL, "", "EXP_daily_check"}}

ValidationReturns ==
    {ReturnSpec(p, r) : p \in ConflictPolicy,
        r \in {None, Some(SelectionRule("")), Some(SelectionRule("highest_certainty"))}}

ValidationQueries ==
    {EOQLQuery(t, "GIVEN", "VISIBLE", FrameRef(f, NULL), tm, Pattern(NULL, <<>>), g, a, r) :
        t \in {"CLAIMS", "ABSENCES"}, f \in {"", "F_default"},
        tm \in ValidationTimes, g \in ValidationGroundings,
        a \in ValidationAbsences, r \in ValidationReturns}

NoQuery == [target |-> NULL]
NoPlan == [sql |-> NULL]

\* a store that plays no part
StoreIdle ==
    /\ pf = {} /\ gc = {} /\ work = {} /\ gt = {} /\ iter = 0 /\ wg = {} /\ vf = {}

\* nothing computed yet
NoOutcome == [status |-> NULL]

\* the tables and outcomes a run does not touch
AbsIdle == entities = {} /\ expectations = {} /\ absences = NoOutcome

\* no call made yet, nothing returned yet
NoCall == [op |-> NULL]
NoResult == [rows |-> NULL]

ExecIdle ==
    /\ connection = "none" /\ autocommit = FALSE /\ store_rows = <<>>
    /\ in_transaction = FALSE
    /\ last = NoCall /\ result = NoResult

\* no registry in use
RegIdle == store = {} /\ cache = {} /\ reg_last = NoCall /\ threads = <<>>

FnIdle == call = NoCall /\ ret = NoCall

RestIdle == AbsIdle /\ ExecIdle /\ RegIdle /\ FnIdle

InitValidate ==
    /\ pc = "built"
    /\ q \in ValidationQueries
    /\ bstate = NoQuery
    /\ errors = <<>>
    /\ plan = NoPlan
    /\ StoreIdle
    /\ RestIdle

\* validate_query(q) returns
ValidateOk ==
    /\ pc = "built"
    /\ ~Raises(q)
    /\ pc' = "validated"
    /\ errors' = <<>>
    /\ UNCHANGED <<bstate, q, plan>>
    /\ UNCHANGED <<storeVars, restVars>>

\* validate_query(q) raises EOQLValidationError(errors, q)
ValidateRaise ==
    /\ pc = "built"
    /\ Raises(q)
    /\ pc' = "rejected"
    /\ errors' = ValidationErrors(q)
    /\ UNCHANGED <<bstate, q, plan>>
    /\ UNCHANGED <<storeVars, restVars>>

NextValidate == ValidateOk \/ ValidateRaise

SpecValidate == InitValidate /\ [][NextValidate]_vars

----------------------------------------------------------------------------
(* The data-model invariants of a query, one by one *)

Carries(x) == x # NULL /\ x # ""

FrameInv(qq) == Carries(qq.frame.frame_id)

TimeInv(qq) ==
    /\ qq.time.kind = "AS_OF" =>
          Carries(qq.time.as_of) /\ ~Carries(qq.time.start) /\ ~Carries(qq.time.end)
    /\ qq.time.kind = "BETWEEN" =>
          Carries(qq.time.start) /\ Carries(qq.time.end) /\ ~Carries(qq.time.as_of)

TraceInv(qq) == qq.grounding.trace => qq.grounding.max_depth >= 1

GroundedByInv(qq) ==
    \A i \in DOMAIN qq.grounding.grounded_by :
        Carries(qq.grounding.grounded_by[i].field) /\ Carries(qq.grounding.grounded_by[i].op)

AbsenceInv(qq) ==
    (qq.target = "ABSENCES" \/ ~IsNone(qq.absence)) =>
        (~IsNone(qq.absence) /\ Carries(The(qq.absence).expectation.expectation_id))

PickOneInv(qq) ==
    qq.returns.conflict_policy = "PICK_ONE" =>
        (~IsNone(qq.returns.selection_rule) /\ Carries(The(qq.returns.selection_rule).rule_id))

SatisfiesInvariants(qq) ==
    /\ FrameInv(qq) /\ TimeInv(qq) /\ TraceInv(qq)
    /\ GroundedByInv(qq) /\ AbsenceInv(qq) /\ PickOneInv(qq)

Validated == pc \in {"validated", "rejected"}

\* C1: validate_query raises EOQLValidationError exactly when the query violates
\* at least one data-model invariant, and returns normally for every query that
\* satisfies all of them.
C1_RaisesIffInvalid ==
    Validated => ((pc = "rejected") <=> ~SatisfiesInvariants(q))

\* a query with a sound frame, trace, absence and policy whose only flaw is an
\* AS_OF window that also carries a start was refused
C1_Witness ==
    /\ pc = "rejected"
    /\ q.time.kind = "AS_OF" /\ Carries(q.time.as_of) /\ Carries(q.time.start)
    /\ FrameInv(q) /\ TraceInv(q) /\ GroundedByInv(q) /\ AbsenceInv(q) /\ PickOneInv(q)

I2Errors == {E_ASOF_MISSING, E_ASOF_EXTRA, E_BETWEEN_MISSING, E_BETWEEN_EXTRA, E_TIME_KIND}
I5Errors == {E_ABSENCE_SPEC, E_EXPECTATION}
I7Errors == {E_PICK_ONE, E_RULE_ID}

Count(errs, S) == Cardinality({i \in DOMAIN errs : errs[i] \in S})

BadGroundedBy(qq) ==
    {i \in DOMAIN qq.grounding.grounded_by :
        ~(Carries(qq.grounding.grounded_by[i].field) /\ Carries(qq.grounding.grounded_by[i].op))}

\* C2: validate_query never short-circuits: the error list of the one
\* EOQLValidationError holds a violation for every violated invariant (and one
\* per offending GROUNDED BY predicate), not only the first found.
C2_AllViolationsReported ==
    Validated =>
        /\ ~FrameInv(q) => Count(errors, {E_FRAME}) = 1
        /\ ~TimeInv(q) => Count(errors, I2Errors) >= 1
        /\ ~TraceInv(q) => Count(errors, {E_TRACE}) = 1
        /\ Count(errors, {E_GROUNDED_BY}) = Cardinality(BadGroundedBy(q))
        /\ ~AbsenceInv(q) => Count(errors, I5Errors) = 1
        /\ ~PickOneInv(q) => Count(errors, I7Errors) = 1

\* all six invariants violated at once, and six or more violations reported
C2_Witness ==
    /\ pc = "rejected"
    /\ ~FrameInv(q) /\ ~TimeInv(q) /\ ~TraceInv(q)
    /\ ~GroundedByInv(q) /\ ~AbsenceInv(q) /\ ~PickOneInv(q)
    /\ Len(errors) >= 6

\* the messages that hold the words 'selection_rule', 'absence', 'expectation'
NamingSelectionRule == {E_PICK_ONE, E_RULE_ID}
NamingAbsence == {E_ABSENCE_SPEC, E_EXPECTATION}
NamingExpectation == {E_EXPECTATION}

\* C26: every query with conflict_policy PICK_ONE whose selection_rule is
\* absent or has an empty rule_id fails validation, with an error that names
\* 'selection_rule', whatever the other fields hold.
C26_PickOneNeedsRule ==
    (Validated /\ q.returns.conflict_policy = "PICK_ONE"
               /\ (IsNone(q.returns.selection_rule)
                   \/ ~Carries(The(q.returns.selection_rule).rule_id))) =>
        /\ pc = "rejected"
        /\ Count(errors, NamingSelectionRule) >= 1

\* PICK_ONE with a rule whose rule_id is empty was refused naming the rule,
\* in a query that also breaks the frame and the trace invariants
C26_Witness ==
    /\ pc = "rejected"
    /\ q.returns = ReturnSpec("PICK_ONE", Some(SelectionRule("")))
    /\ ~FrameInv(q) /\ ~TraceInv(q)
    /\ Count(errors, {E_RULE_ID}) = 1

\* C27: every query with target ABSENCES and no absence spec fails validation
\* with an error naming 'absence'; every query, of any target, whose absence
\* spec has a missing or empty expectation_id fails validation with an error
\* naming 'expectation'.
C27_AbsenceNeedsExpectation ==
    Validated =>
        /\ (q.target = "ABSENCES" /\ IsNone(q.absence)) =>
              (pc = "rejected" /\ Count(errors, NamingAbsence) >= 1)
        /\ (~IsNone(q.absence) /\ ~Carries(The(q.absence).expectation.expectation_id)) =>
              (pc = "rejected" /\ Count(errors, NamingExpectation) >= 1)

\* a CLAIMS query, sound otherwise, refused for the empty expectation_id of
\* the absence spec it carries
C27_Witness ==
    /\ pc = "rejected"
    /\ q.target = "CLAIMS"
    /\ ~IsNone(q.absence) /\ The(q.absence).expectation.expectation_id = ""
    /\ errors = <<E_EXPECTATION>>

----------------------------------------------------------------------------
(* eoql/builder.py: QueryBuilder, and the path builder -> IR -> compile     *)

\* _BuilderState()
FreshBuilder ==
    [target |-> NULL, mode |-> NULL, visibility |-> NULL,
     frame_id |-> NULL, frame_version |-> NULL,
     time_kind |-> NULL, time_as_of |-> NULL, time_start |-> NULL, time_end |-> NULL,
     match_pattern |-> NULL, predicates |-> <<>>,
     trace |-> FALSE, max_depth |-> 0, grounded_by |-> <<>>,
     expectation_id |-> NULL, expectation_version |-> NULL, absence_scope |-> <<>>,
     conflict_policy |-> "EXPOSE_ALL", selection_rule_id |-> NULL]

\* .under_frame(frame_id, version)
under_frame(b, frame_id, version) ==
    [b EXCEPT !.frame_id = frame_id, !.frame_version = OrElse(version, "latest")]

\* .as_of(timestamp)
as_of(b, ts) ==
    [b EXCEPT !.time_kind = "AS_OF", !.time_as_of = ts,
              !.time_start = NULL, !.time_end = NULL]

\* .between(start, end)
between_(b, start, end) ==
    [b EXCEPT !.time_kind = "BETWEEN", !.time_as_of = NULL,
              !.time_start = start, !.time_end = end]

\* .with_trace(max_depth)
with_trace(b, max_depth) == [b EXCEPT !.trace = TRUE, !.max_depth = max_depth]

\* .expecting(expectation_id, version, scope)
expecting(b, id, version, scope) ==
    [b EXCEPT !.expectation_id = id, !.expectation_version = version,
              !.absence_scope = scope]

\* .pick_one(rule_id)
pick_one(b, rule_id) ==
    [b EXCEPT !.conflict_policy = "PICK_ONE", !.selection_rule_id = rule_id]

\* _check_completeness: the names of the missing fields
check_completeness(b) ==
    {f \in {"target", "mode", "visibility"} : b[f] = NULL}
    \cup (IF b.frame_id = NULL THEN {"frame"} ELSE {})
    \cup (IF b.time_kind = NULL THEN {"time"} ELSE {})
    \cup (IF b.target = "ABSENCES" /\ b.expectation_id = NULL THEN {"expectation"} ELSE {})
    \cup (IF b.conflict_policy = "PICK_ONE" /\ b.selection_rule_id = NULL
          THEN {"selection_rule"} ELSE {})

\* the EOQLQuery build() constructs from the builder state
BuiltQuery(b) ==
    EOQLQuery(b.target, b.mode, b.visibility,
        FrameRef(b.frame_id, b.frame_version),
        IF b.time_kind = "AS_OF"
        THEN TimeWindow("AS_OF", b.time_as_of, NULL, NULL)
        ELSE TimeWindow("BETWEEN", NULL, b.time_start, b.time_end),
        Pattern(b.match_pattern, b.predicates),
        GroundingSpec(b.trace, b.max_depth, b.grounded_by),
        IF b.expectation_id # NULL
        THEN Some(AbsenceSpec(ExpectationRef(b.expectation_id, b.expectation_version),
                              b.absence_scope))
        ELSE None,
        ReturnSpec(b.conflict_policy,
                   IF b.selection_rule_id # NULL
                   THEN Some(SelectionRule(b.selection_rule_id)) ELSE None))

(* The arguments the fluent calls of the model are given *)

TypePred == Predicate("claim_type", "=", StrVal("temperature"))
CertaintyPred == Predicate("certainty", ">=", NumVal("0.8"))
LikePred == Predicate("term", "like", StrVal("temp"))
InPred == Predicate("claim_type", "in", StrList(<<"temperature", "humidity">>))

ScopeNorthGold == <<<<"region", "north">>, <<"tier", "gold">>>>
ScopeGoldNorth == <<<<"tier", "gold">>, <<"region", "north">>>>

WithTarget == {[FreshBuilder EXCEPT !.target = t] : t \in Target}
WithMode ==
    {[b EXCEPT !.mode = m, !.visibility = v] : b \in WithTarget, m \in Mode, v \in Visibility}
WithFrame == {under_frame(b, f, NULL) : b \in WithMode, f \in {"", "F_default"}}
WithTime ==
    {as_of(b, ts) : b \in WithFrame, ts \in {"", "t1"}}
    \cup {between_(b, "t1", "t2") : b \in WithFrame}
WithPattern ==
    {[b EXCEPT !.match_pattern = pt[1], !.predicates = pt[2]] :
        b \in WithTime,
        pt \in {<<NULL, <<>>>>, <<"temp", <<TypePred>>>>, <<NULL, <<CertaintyPred, LikePred, InPred>>>>}}
WithGrounding ==
    WithPattern
    \cup {with_trace(b, d) : b \in WithPattern, d \in {0, 1}}
    \cup {[with_trace(b, 2) EXCEPT !.grounded_by = <<GoodPred>>] : b \in WithPattern}
WithAbsence ==
    WithGrounding
    \cup {expecting(b, "", NULL, <<>>) : b \in WithGrounding}
    \cup {expecting(b, "EXP_daily_check", "1.0", s) :
            b \in WithGrounding, s \in {<<>>, ScopeNorthGold, ScopeGoldNorth}}
FluentChains ==
    {[b EXCEPT !.conflict_policy = p] : b \in WithAbsence, p \in {"EXPOSE_ALL", "CLUSTER", "RANK"}}
    \cup {pick_one(b, r) : b \in WithAbsence, r \in {"", "highest_certainty"}}

\* EOQLQuery(...) written out by the caller, as the tests' base_query does
BaseQuery ==
    EOQLQuery("CLAIMS", "GIVEN", "VISIBLE", FrameRef("F_default", "latest"), asof("t1"),
              Pattern(NULL, <<>>), GroundingSpec(FALSE, 0, <<>>), None,
              ReturnSpec("EXPOSE_ALL", None))

DirectQueries ==
    {BaseQuery,
     [BaseQuery EXCEPT !.frame = FrameRef("F_official", NULL)],
     [BaseQuery EXCEPT !.time = TimeWindow("AS_OF", "t1", "t1", NULL)],
     [BaseQuery EXCEPT !.target = "ABSENCES"],
     [BaseQuery EXCEPT !.returns = ReturnSpec("PICK_ONE", None)],
     [BaseQuery EXCEPT !.returns = ReturnSpec("PICK_ONE", Some(SelectionRule("highest_certainty")))],
     [BaseQuery EXCEPT !.visibility = "EXISTS", !.mode = "MEANT"]}

Init ==
    /\ pc = "new"
    /\ bstate = FreshBuilder
    /\ q = NoQuery
    /\ errors = <<>>
    /\ plan = NoPlan
    /\ StoreIdle
    /\ RestIdle

\* QueryBuilder().<target>().<mode>()... : a chain of fluent calls
FluentChain ==
    /\ pc = "new"
    /\ \E b \in FluentChains : bstate' = b
    /\ pc' = "chained"
    /\ UNCHANGED <<q, errors, plan>>
    /\ UNCHANGED <<storeVars, restVars>>

\* EOQLQuery(...) constructed without the builder
Construct ==
    /\ pc = "new"
    /\ \E qq \in DirectQueries : q' = qq
    /\ pc' = "built"
    /\ UNCHANGED <<bstate, errors, plan>>
    /\ UNCHANGED <<storeVars, restVars>>

\* build() raises IncompleteQueryError
BuildIncomplete ==
    /\ pc = "chained"
    /\ check_completeness(bstate) # {}
    /\ pc' = "incomplete"
    /\ UNCHANGED pipeVars
    /\ UNCHANGED <<storeVars, restVars>>

\* build(validate=True) returns the query: validate_query raised nothing
BuildValidated ==
    /\ pc = "chained"
    /\ check_completeness(bstate) = {}
    /\ ~Raises(BuiltQuery(bstate))
    /\ q' = BuiltQuery(bstate)
    /\ pc' = "built"
    /\ errors' = <<>>
    /\ UNCHANGED <<bstate, plan>>
    /\ UNCHANGED <<storeVars, restVars>>

\* build(validate=True) raises EOQLValidationError: no query is returned
BuildRejected ==
    /\ pc = "chained"
    /\ check_completeness(bstate) = {}
    /\ Raises(BuiltQuery(bstate))
    /\ errors' = ValidationErrors(BuiltQuery(bstate))
    /\ pc' = "rejected"
    /\ UNCHANGED <<bstate, q, plan>>
    /\ UNCHANGED <<storeVars, restVars>>

\* build(validate=False) returns the query as constructed
BuildUnvalidated ==
    /\ pc = "chained"
    /\ check_completeness(bstate) = {}
    /\ q' = BuiltQuery(bstate)
    /\ pc' = "built"
    /\ UNCHANGED <<bstate, errors, plan>>
    /\ UNCHANGED <<storeVars, restVars>>

\* PostgresCompiler().compile(q)
CompileQuery ==
    /\ pc = "built"
    /\ plan' = Compile(q)
    /\ pc' = "compiled"
    /\ UNCHANGED <<bstate, q, errors>>
    /\ UNCHANGED <<storeVars, restVars>>

Next ==
    \/ FluentChain
    \/ Construct
    \/ BuildIncomplete
    \/ BuildValidated
    \/ BuildRejected
    \/ BuildUnvalidated
    \/ CompileQuery

Spec == Init /\ [][Next]_vars

----------------------------------------------------------------------------
(* Claims about the path builder -> IR -> compile *)

Compiled == pc = "compiled"
CompiledValid == pc = "compiled" /\ SatisfiesInvariants(q)

\* C3: no invalid query reaches the compiler: compile only ever produces a plan
\* for a query that satisfies the invariants validate_query enforces.
C3_OnlyValidCompiled ==
    Compiled => SatisfiesInvariants(q)

\* the orders in which the items of a dict can have been inserted
InsertionOrders(d) ==
    {o \in [1..Len(d) -> Range(d)] : Range(o) = Range(d)}

\* the queries q == q2 holds for although their scope dicts were filled in
\* another order
EqualQueries(qq) ==
    IF IsNone(qq.absence) THEN {qq}
    ELSE {[qq EXCEPT !.absence = Some([The(qq.absence) EXCEPT !.scope = o])] :
            o \in InsertionOrders(The(qq.absence).scope)}

\* C4: compile is a deterministic function of the query value: compiling a
\* valid query again, and compiling any structurally equal query, gives the
\* same sql, params, notes and context.
C4_EqualQueriesCompileAlike ==
    CompiledValid =>
        \A q2 \in EqualQueries(q) :
            QueryEq(q, q2) =>
                /\ Compile(q2).sql = plan.sql
                /\ Compile(q2).params = plan.params
                /\ Compile(q2).notes = plan.notes
                /\ Compile(q2).context = plan.context

\* the phase of the pipeline a CTE belongs to
PhaseOf(name) ==
    CASE name = "event_replay" -> 1
      [] name = "framed_projection" -> 2
      [] name = "mode_filtered" -> 3
      [] name = "pattern_filtered" -> 4
      [] name \in {"grounding_traverse", "with_grounding"} -> 5
      [] name = "visibility_filtered" -> 6
      [] name \in {"expected_entities", "actual_claims", "computed_absences"} -> 7
      [] OTHER -> 0

CteNames(pl) == [i \in DOMAIN pl.sql.ctes |-> pl.sql.ctes[i].name]

\* the relations holding assertion rows: the log and the CTEs derived from it
\* (expected_entities holds entities; grounding_chains, entities and
\* expectations are the store's other tables)
AssertionRelations ==
    {"assertions", "event_replay", "framed_projection", "mode_filtered", "pattern_filtered",
     "grounding_traverse", "with_grounding", "visibility_filtered", "actual_claims"}

ExpectedCteNames(qq) ==
    <<"event_replay", "framed_projection", "mode_filtered", "pattern_filtered">>
    \o (IF qq.grounding.trace THEN <<"grounding_traverse">> ELSE <<>>)
    \o <<"with_grounding", "visibility_filtered">>
    \o (IF qq.target = "ABSENCES"
        THEN <<"expected_entities", "actual_claims", "computed_absences">> ELSE <<>>)

\* the last CTE of the phase before phase p, "assertions" before the first
LastOfPhaseBefore(ctes, i) ==
    LET before == {j \in 1..(i-1) : PhaseOf(ctes[j].name) < PhaseOf(ctes[i].name)}
    IN  IF before = {} THEN "assertions"
        ELSE ctes[CHOOSE j \in before : \A k \in before : k <= j].name

\* CTE i reads assertion rows only from the phase just before it, or from
\* itself and the CTEs of its own phase that precede it
ReadsFromPhaseBefore(ctes, i) ==
    \A src \in Range(ctes[i].from) \cap AssertionRelations :
        \/ src = LastOfPhaseBefore(ctes, i)
        \/ \E j \in 1..i : ctes[j].name = src /\ PhaseOf(src) = PhaseOf(ctes[i].name)

\* C5: the stages of a valid query's plan occur in the fixed phase order,
\* every stage reads its assertion rows from the phase immediately before it,
\* and pattern_filtered and with_grounding are there, as pass-throughs, when
\* no pattern and no trace is asked for.
C5_FixedPhaseOrder ==
    CompiledValid =>
        LET ctes == plan.sql.ctes IN
        /\ CteNames(plan) = ExpectedCteNames(q)
        /\ \A i \in DOMAIN ctes : ReadsFromPhaseBefore(ctes, i)
        /\ plan.sql.final.from = ctes[Len(ctes)].name
        /\ (q.pattern.where = <<>> /\ ~Carries(q.pattern.match)) =>
              ctes[4] = Cte("pattern_filtered", <<"mode_filtered">>, <<>>, "", <<"*">>)
        /\ ~q.grounding.trace =>
              (ctes[5].name = "with_grounding" /\ ctes[5].where = <<>> /\ ctes[5].uniq = "")

\* an ABSENCES query with a trace was compiled: ten stages, the longest pipeline
C5_Witness ==
    /\ CompiledValid
    /\ q.target = "ABSENCES" /\ q.grounding.trace
    /\ Len(plan.sql.ctes) = 10

\* C6: no stage of a valid query's plan applies a uniqueness-enforcing or
\* winner-picking operation other than the ENTITIES identity projection and
\* the per-assertion grounding-path selection.
C6_OnlySanctionedUniqueness ==
    CompiledValid =>
        /\ \A i \in DOMAIN plan.sql.ctes :
              plan.sql.ctes[i].uniq # "" =>
                  (plan.sql.ctes[i].name = "with_grounding"
                   /\ plan.sql.ctes[i].uniq = "DISTINCT ON (assertion_id)")
        /\ plan.sql.final.uniq # "" => q.target = "ENTITIES"
        /\ plan.sql.guard.kind # "clause"

\* the queries that differ from qq in returns.conflict_policy / selection_rule only
PolicyVariants(qq) ==
    {[qq EXCEPT !.returns = ReturnSpec(p, r)] :
        p \in ConflictPolicy, r \in {None, Some(SelectionRule("highest_certainty"))}}

\* C7: the compiler resolves no conflict: valid queries that differ only in
\* conflict policy / selection rule compile to the same stages and final
\* projection; the policy adds at most an SQL comment, nothing for EXPOSE_ALL
\* and a marker for PICK_ONE.
C7_PolicyChangesNoStage ==
    CompiledValid =>
        /\ \A q2 \in PolicyVariants(q) :
              SatisfiesInvariants(q2) =>
                  /\ Compile(q2).sql.ctes = plan.sql.ctes
                  /\ Compile(q2).sql.final = plan.sql.final
                  /\ Compile(q2).sql.guard.kind \in {"", "comment"}
        /\ q.returns.conflict_policy = "EXPOSE_ALL" => plan.sql.guard = Guard("", "")
        /\ q.returns.conflict_policy = "PICK_ONE" =>
              (plan.sql.guard.kind = "comment" /\ plan.sql.guard.text # "")

\* a PICK_ONE query was compiled and its plan carries the marker
C7_Witness ==
    /\ CompiledValid
    /\ q.returns.conflict_policy = "PICK_ONE"
    /\ plan.sql.guard.kind = "comment"

----------------------------------------------------------------------------
(* The relational meaning of the grounding and visibility CTEs.             *)
(* assertion_id is the primary key of assertions, so the rows of a stage    *)
(* form a set; grounding_chains is taken as its set of                      *)
(* <<target_id, grounded_by_id>> links.                                     *)

Nodes == {"n1", "n2", "n3"}

\* a uuid[] value: SQL NULL, or the array of its elements
NullArray == [isnull |-> TRUE, ids |-> <<>>]
Array(ids) == [isnull |-> FALSE, ids |-> ids]

\* a row of assertions as the stages up to pattern_filtered pass it on
Assertion(id, ref, source, scope) ==
    [assertion_id |-> id, grounding_ref |-> ref, source_id |-> source,
     visibility_scope |-> scope]

\* the same row with the two grounding columns
Grounded(r, ref, path, depth) ==
    [assertion_id |-> r.assertion_id, grounding_ref |-> ref, source_id |-> r.source_id,
     visibility_scope |-> r.visibility_scope,
     grounding_path |-> path, grounding_depth |-> depth]

\* a rendered condition (see compile_predicate) evaluated on a row
EvalCond(r, c) ==
    CASE c.form = "cmp" /\ c.op = "=" -> r[c.col] # NULL /\ r[c.col] = c.val[1]
      [] c.form = "cmp" /\ c.op = "!=" -> r[c.col] # NULL /\ r[c.col] # c.val[1]
      [] c.form = "in" -> r[c.col] # NULL /\ r[c.col] \in Range(c.val)
      [] c.form = "isnull" /\ c.op = "IS NULL" -> r[c.col] = NULL
      [] c.form = "isnull" /\ c.op = "IS NOT NULL" -> r[c.col] # NULL

\* a base case that starts the traversal at depth 0
BaseTermFromZero(rows) ==
    {Grounded(r, r.grounding_ref, Array(<<r.grounding_ref>>), 0) :
        r \in {x \in rows : x.grounding_ref # NULL}}

\* grounding_traverse, base case:
\*   SELECT ..., ARRAY[pf.grounding_ref], 1 FROM pattern_filtered pf
\*   WHERE pf.grounding_ref IS NOT NULL
BaseTerm(rows) ==
    {Grounded(r, r.grounding_ref, Array(<<r.grounding_ref>>), 1) :
        r \in {x \in rows : x.grounding_ref # NULL}}

\* the recursive term without its NOT ... = ANY(gt.grounding_path) condition
RecursiveTermRevisiting(working, links, max_depth) ==
    {Grounded(x[1], x[2][2], Array(Append(x[1].grounding_path.ids, x[2][2])),
              x[1].grounding_depth + 1) :
        x \in {y \in working \X links :
                  /\ y[1].grounding_ref = y[2][1]
                  /\ y[1].grounding_depth < max_depth}}

\* grounding_traverse, recursive term, over the working table:
\*   FROM grounding_traverse gt JOIN grounding_chains gc ON gt.grounding_ref = gc.target_id
\*   WHERE gt.grounding_depth < max_depth
\*   AND NOT gc.grounded_by_id = ANY(gt.grounding_path)
RecursiveTerm(working, links, max_depth) ==
    {Grounded(x[1], x[2][2], Array(Append(x[1].grounding_path.ids, x[2][2])),
              x[1].grounding_depth + 1) :
        x \in {y \in working \X links :
                  /\ y[1].grounding_ref = y[2][1]
                  /\ y[1].grounding_depth < max_depth
                  /\ y[2][2] \notin Range(y[1].grounding_path.ids)}}

\* FROM grounding_traverse {grounding_filter}
FilteredTraversal(rows, qq) ==
    {r \in rows :
        \A i \in DOMAIN qq.grounding.grounded_by :
            EvalCond(r, compile_predicate(qq.grounding.grounded_by[i]))}

\* the second branch of with_grounding with the grounded_by filter put on it too
WeaklyGroundedFiltered(rows, qq) ==
    FilteredTraversal(
        {Grounded(r, r.grounding_ref, Array(<<>>), 0) :
            r \in {x \in rows : x.grounding_ref = NULL}}, qq)

\* with_grounding, second branch of the UNION ALL:
\*   SELECT ..., ARRAY[]::uuid[], 0 FROM pattern_filtered pf WHERE pf.grounding_ref IS NULL
WeaklyGrounded(rows, qq) ==
    {Grounded(r, r.grounding_ref, Array(<<>>), 0) :
        r \in {x \in rows : x.grounding_ref = NULL}}

\* SELECT DISTINCT ON (assertion_id) ... with no ORDER BY: for each assertion_id
\* one of its rows, which one is not determined. The sets of rows it can return.
DistinctOnAssertion(rows) ==
    LET ids == {r.assertion_id : r \in rows}
    IN  {S \in SUBSET rows :
            /\ \A i \in ids : \E r \in S : r.assertion_id = i
            /\ \A r1, r2 \in S : r1.assertion_id = r2.assertion_id => r1 = r2}

\* the with_grounding CTE compile() writes when no trace is asked for
PassThroughRows(rows) == {Grounded(r, r.grounding_ref, NullArray, 0) : r \in rows}

\* visibility_filtered for EXISTS without the annotation column's CASE
visibility_rows_unlabelled(rows, qq) ==
    IF qq.visibility = "VISIBLE"
    THEN {r \in rows : r.visibility_scope = "visible"}
    ELSE {[r |-> x, visibility_note |-> NULL] : x \in rows}

\* what the visibility_filtered CTE (_compile_visibility_cte) selects:
\*   VISIBLE: SELECT * FROM with_grounding WHERE visibility_scope = 'visible'
\*   EXISTS:  SELECT *, CASE WHEN visibility_scope != 'visible'
\*            THEN 'hidden:' || visibility_scope ELSE NULL END AS visibility_note
\* (a row of the EXISTS form is the with_grounding row r and its note: NULL, or
\* the scope label that follows 'hidden:')
visibility_rows(rows, qq) ==
    IF qq.visibility = "VISIBLE"
    THEN {r \in rows : r.visibility_scope = "visible"}
    ELSE {[r |-> x,
           visibility_note |-> IF x.visibility_scope # "visible"
                               THEN x.visibility_scope ELSE NULL] : x \in rows}

(* The stores and queries the stages are run on *)

\* a second filter on a column of grounding_traverse
NotViaN3 == Predicate("grounding_ref", "!=", StrVal("n3"))

GroundQueries ==
    {[BaseQuery EXCEPT !.grounding = GroundingSpec(TRUE, d, g)] :
        d \in 1..MaxDepth, g \in {<<>>, <<GoodPred>>, <<NotViaN3>>}}
    \cup {BaseQuery}

PatternFilteredTables ==
    {{Assertion("a1", r1, "sensor", "visible"), Assertion("a2", r2, "manual", "visible")} :
        r1 \in {NULL, "n1"}, r2 \in {NULL, "n1", "n2"}}

InitGround ==
    /\ pc = "pattern_filtered"
    /\ q \in GroundQueries
    /\ pf \in PatternFilteredTables
    /\ gc \in SUBSET (Nodes \X Nodes)
    /\ work = {} /\ gt = {} /\ iter = 0 /\ wg = {} /\ vf = {}
    /\ bstate = NoQuery /\ errors = <<>> /\ plan = NoPlan
    /\ RestIdle

\* no trace: the pass-through with_grounding
GroundPassThrough ==
    /\ pc = "pattern_filtered"
    /\ ~q.grounding.trace
    /\ wg' = PassThroughRows(pf)
    /\ pc' = "with_grounding"
    /\ UNCHANGED <<pf, gc, work, gt, iter, vf>>
    /\ UNCHANGED <<pipeVars, restVars>>

\* trace: the non-recursive term of grounding_traverse is evaluated
GroundBase ==
    /\ pc = "pattern_filtered"
    /\ q.grounding.trace
    /\ work' = BaseTerm(pf)
    /\ gt' = BaseTerm(pf)
    /\ pc' = "grounding_traverse"
    /\ UNCHANGED <<pf, gc, iter, wg, vf>>
    /\ UNCHANGED <<pipeVars, restVars>>

\* the recursive term is evaluated over the working table, whose rows it replaces
GroundRecurse ==
    /\ pc = "grounding_traverse"
    /\ work # {}
    /\ work' = RecursiveTerm(work, gc, q.grounding.max_depth)
    /\ gt' = gt \cup work'
    /\ iter' = iter + 1
    /\ UNCHANGED <<pc, pf, gc, wg, vf>>
    /\ UNCHANGED <<pipeVars, restVars>>

\* the working table is empty: with_grounding selects from the traversal
GroundSelect ==
    /\ pc = "grounding_traverse"
    /\ work = {}
    /\ \E chosen \in DistinctOnAssertion(FilteredTraversal(gt, q)) :
          wg' = chosen \cup WeaklyGrounded(pf, q)
    /\ pc' = "with_grounding"
    /\ UNCHANGED <<pf, gc, work, gt, iter, vf>>
    /\ UNCHANGED <<pipeVars, restVars>>

NextGround ==
    \/ GroundPassThrough
    \/ GroundBase
    \/ GroundRecurse
    \/ GroundSelect

SpecGround == InitGround /\ [][NextGround]_vars

NoDuplicates(ids) == \A i, j \in DOMAIN ids : ids[i] = ids[j] => i = j

\* C8: grounding traversal never revisits a node of its accumulated path: on
\* every provenance graph, cycles and self-links included, no grounding_path
\* holds a node twice, and the traversal ends: it runs at most as many
\* recursive rounds as there are nodes, and is never stuck before its end.
C8_NoRevisitAndTerminates ==
    /\ \A r \in gt \cup work \cup wg : NoDuplicates(r.grounding_path.ids)
    /\ iter <= Cardinality(Nodes)
    /\ pc # "with_grounding" => ENABLED NextGround

\* a traversal over a graph with a self-link and a two-node cycle ran to its
\* end with a depth limit larger than the number of nodes
C8_Witness ==
    /\ pc = "with_grounding"
    /\ q.grounding.trace /\ q.grounding.max_depth > Cardinality(Nodes)
    /\ {<<"n1", "n1">>, <<"n1", "n2">>, <<"n2", "n1">>} \subseteq gc
    /\ \E r \in wg : r.grounding_depth = 2

PathsOf(id) == {r \in FilteredTraversal(gt, q) : r.assertion_id = id}

\* C28: with trace set, for each assertion that has at least one grounding
\* path the grounding stage outputs exactly one row, and that row carries the
\* deepest traversed path: which row comes out is a function of the
\* provenance graph, not of the order in which the store returns the rows.
C28_DeepestPathChosen ==
    (pc = "with_grounding" /\ q.grounding.trace) =>
        \A a \in pf :
            PathsOf(a.assertion_id) # {} =>
                /\ Cardinality({w \in wg : w.assertion_id = a.assertion_id}) = 1
                /\ \A w \in wg : w.assertion_id = a.assertion_id =>
                       \A r \in PathsOf(a.assertion_id) :
                           r.grounding_depth <= w.grounding_depth

\* C29: every row the grounding traversal produces for max_depth d >= 1 has
\* 1 <= grounding_depth <= d and a grounding_path of exactly grounding_depth
\* elements, whose first element is the assertion's own grounding_ref and
\* whose every later element is linked to the one before it (the one before
\* is the target id of a provenance link, the element its grounded-by id).
C29_PathShape ==
    (q.grounding.trace /\ q.grounding.max_depth >= 1) =>
        \A r \in gt \cup work :
            LET path == r.grounding_path.ids
            IN  /\ 1 <= r.grounding_depth /\ r.grounding_depth <= q.grounding.max_depth
                /\ ~r.grounding_path.isnull
                /\ Len(path) = r.grounding_depth
                /\ \E a \in pf : a.assertion_id = r.assertion_id /\ a.grounding_ref = path[1]
                /\ \A i \in 2..Len(path) : <<path[i - 1], path[i]>> \in gc

\* a traversal cut by max_depth: a path as long as the limit allows whose
\* last node has a further link to a node not on the path
C29_Witness ==
    /\ pc = "with_grounding"
    /\ q.grounding.max_depth = 2
    /\ \E r \in gt :
          /\ r.grounding_depth = 2
          /\ r.grounding_path.ids = <<"n1", "n2">>
          /\ <<"n2", "n3">> \in gc

(* The visibility stage on its own *)

Scopes == {"visible", "hidden", "archived"}

WithGroundingTables ==
    {PassThroughRows({Assertion(a, NULL, "sensor", s[a]) : a \in A}) :
        A \in SUBSET {"a1", "a2", "a3"}, s \in [{"a1", "a2", "a3"} -> Scopes]}

InitVis ==
    /\ pc = "with_grounding"
    /\ q \in {[BaseQuery EXCEPT !.visibility = v] : v \in Visibility}
    /\ wg \in WithGroundingTables
    /\ pf = {} /\ gc = {} /\ work = {} /\ gt = {} /\ iter = 0 /\ vf = {}
    /\ bstate = NoQuery /\ errors = <<>> /\ plan = NoPlan
    /\ RestIdle

\* the visibility_filtered CTE is evaluated
VisibilityStage ==
    /\ pc = "with_grounding"
    /\ vf' = visibility_rows(wg, q)
    /\ pc' = "visibility_filtered"
    /\ UNCHANGED <<pf, gc, work, gt, iter, wg>>
    /\ UNCHANGED <<pipeVars, restVars>>

NextVis == VisibilityStage

SpecVis == InitVis /\ [][NextVis]_vars

\* C10: VISIBLE yields exactly the input rows of scope 'visible'; EXISTS
\* yields every input row, and a row carries a visibility note, holding its
\* scope label, if and only if its scope is not 'visible'.
C10_VisibleFiltersExistsAnnotates ==
    pc = "visibility_filtered" =>
        /\ q.visibility = "VISIBLE" =>
              vf = {r \in wg : r.visibility_scope = "visible"}
        /\ q.visibility = "EXISTS" =>
              /\ {x.r : x \in vf} = wg
              /\ Cardinality(vf) = Cardinality(wg)
              /\ \A x \in vf :
                    /\ (x.visibility_note # NULL) <=> (x.r.visibility_scope # "visible")
                    /\ x.visibility_note # NULL => x.visibility_note = x.r.visibility_scope

\* EXISTS over rows of all three scopes: the hidden ones come through, labelled
C10_Witness ==
    /\ pc = "visibility_filtered"
    /\ q.visibility = "EXISTS"
    /\ {x.r.visibility_scope : x \in vf} = Scopes
    /\ \E x \in vf : x.visibility_note = "archived"

----------------------------------------------------------------------------
(* The relational meaning of the absence CTEs (_compile_absence_computation) *)
(* over the entities and expectations tables and visibility_filtered.        *)

\* value of key k in a JSON object / dict given as its <<key, value>> pairs
Lookup(d, k) ==
    IF \E i \in DOMAIN d : d[i][1] = k
    THEN d[CHOOSE i \in DOMAIN d : d[i][1] = k][2]
    ELSE NULL

\* a row of entities
Entity(id, type, properties) ==
    [entity_id |-> id, entity_type |-> type, properties |-> properties]

\* a row of expectations; its rule holds entity_filter (or none) and claim_type
Expectation(id, version, entity_filter, claim_type) ==
    [expectation_id |-> id, version |-> version,
     rule |-> [entity_filter |-> entity_filter, claim_type |-> claim_type]]

\* a claim row as visibility_filtered hands it to actual_claims
Claim(id, subject, type) ==
    [assertion_id |-> id, subject_id |-> subject, claim_type |-> type]

\* {scope_filter}: AND e.properties->'k' = '"v"' for every item of absence.scope
InScope(e, scope) ==
    \A i \in DOMAIN scope : Lookup(e.properties, scope[i][1]) = scope[i][2]

\* expected_entities: entities e JOIN expectations exp ON exp.expectation_id = id
\*   WHERE (entity_filter IS NULL OR e.entity_type = entity_filter) {scope_filter}
\* one row for every pair of the join
expected_entities(ents, exps, qq) ==
    {x \in ents \X exps :
        /\ x[2].expectation_id = The(qq.absence).expectation.expectation_id
        /\ \/ x[2].rule.entity_filter = NULL
           \/ x[1].entity_type = x[2].rule.entity_filter
        /\ InScope(x[1], The(qq.absence).scope)}

\* actual_claims: SELECT DISTINCT vf.subject_id FROM visibility_filtered vf
\*   JOIN expectations exp ON exp.expectation_id = id
\*   WHERE vf.claim_type = exp.rule->>'claim_type'
actual_claims(rows, exps, qq) ==
    {x[1].subject_id :
        x \in {y \in rows \X exps :
                  /\ y[2].expectation_id = The(qq.absence).expectation.expectation_id
                  /\ y[1].claim_type = y[2].rule.claim_type}}

\* (SELECT rule->>'claim_type' FROM expectations WHERE expectation_id = id):
\* the rows a scalar subquery must reduce to one value
claim_type_subquery(exps, qq) ==
    {x \in exps : x.expectation_id = The(qq.absence).expectation.expectation_id}

\* computed_absences: expected_entities ee LEFT JOIN actual_claims ac
\*   ON ee.entity_id = ac.subject_id WHERE ac.subject_id IS NULL.
\* absence_id is uuid_generate_v4(), fresh for every row: it is modelled by the
\* joined pair the row comes from. A scalar subquery that returns more than one
\* row fails the statement when a row is projected.
computed_absences(ents, exps, rows, qq) ==
    LET exp == The(qq.absence).expectation
        missing == {x \in expected_entities(ents, exps, qq) :
                        x[1].entity_id \notin actual_claims(rows, exps, qq)}
        sub == claim_type_subquery(exps, qq)
    IN  IF missing # {} /\ Cardinality(sub) > 1
        THEN [status |-> "error", rows |-> {}]
        ELSE [status |-> "ok",
              rows |-> {[absence_id |-> <<x[1].entity_id, x[2].version>>,
                         expectation_id |-> exp.expectation_id,
                         expectation_version |-> OrElse(exp.version, "latest"),
                         expected_entity_id |-> x[1].entity_id,
                         expected_claim_type |->
                             IF sub = {} THEN NULL
                             ELSE (CHOOSE y \in sub : TRUE).rule.claim_type,
                         window_start |-> OrElse(qq.time.start, qq.time.as_of),
                         window_end |-> OrElse(qq.time.end, qq.time.as_of),
                         frame_id |-> qq.frame.frame_id,
                         frame_version |-> OrElse(qq.frame.version, "latest")] :
                        x \in missing}]

(* The tables and queries the absence stage is run on *)

North == <<<<"region", "north">>>>
South == <<<<"region", "south">>>>

AbsenceQueries ==
    {[BaseQuery EXCEPT !.target = "ABSENCES",
                       !.absence = Some(AbsenceSpec(ExpectationRef("EXP_daily_check", v), s))] :
        v \in {NULL, "1.0"}, s \in {<<>>, North}}

EntityTables ==
    {{Entity("e1", t1, p1)} \cup E2 :
        t1 \in {"sensor", "station"}, p1 \in {North, South},
        E2 \in {{}, {Entity("e2", "sensor", North)}, {Entity("e2", "station", <<>>)}}}

\* tables of expectations: (expectation_id, version) is the primary key
StoredVersions(v) ==
    {{}} \cup {{Expectation("EXP_daily_check", v, f, c)} :
                  f \in {NULL, "sensor"}, c \in {"temperature", "humidity"}}

ExpectationTables ==
    {V1 \cup V2 \cup O :
        V1 \in StoredVersions("1.0"), V2 \in StoredVersions("2.0"),
        O \in {{}, {Expectation("EXP_other", "1.0", NULL, "temperature")}}}

VisibilityFilteredTables ==
    {A1 \cup A2 :
        A1 \in {{}, {Claim("a1", "e1", "temperature")}, {Claim("a1", "e1", "humidity")},
                {Claim("a1", "e2", "temperature")}},
        A2 \in {{}, {Claim("a2", "e1", "temperature")}, {Claim("a2", "e2", "humidity")}}}

InitAbsence ==
    /\ pc = "visibility_filtered"
    /\ q \in AbsenceQueries
    /\ entities \in EntityTables
    /\ expectations \in ExpectationTables
    /\ vf \in VisibilityFilteredTables
    /\ absences = NoOutcome
    /\ pf = {} /\ gc = {} /\ work = {} /\ gt = {} /\ iter = 0 /\ wg = {}
    /\ bstate = NoQuery /\ errors = <<>> /\ plan = NoPlan
    /\ ExecIdle /\ RegIdle /\ FnIdle

\* the three absence CTEs are evaluated
AbsenceStage ==
    /\ pc = "visibility_filtered"
    /\ absences' = computed_absences(entities, expectations, vf, q)
    /\ pc' = "computed_absences"
    /\ UNCHANGED <<entities, expectations>>
    /\ UNCHANGED <<pipeVars, storeVars, execVars, regVars, fnVars>>

NextAbsence == AbsenceStage

SpecAbsence == InitAbsence /\ [][NextAbsence]_vars

\* rank of a version key ('latest' resolves to the highest one stored)
VersionRank(v) == IF v = "1.0" THEN 1 ELSE 2

\* the stored expectation the query's ExpectationRef refers to (none, or one)
ReferencedExpectation(exps, qq) ==
    LET exp == The(qq.absence).expectation
        same == {x \in exps : x.expectation_id = exp.expectation_id}
    IN  IF exp.version # NULL
        THEN {x \in same : x.version = exp.version}
        ELSE {x \in same : \A y \in same : VersionRank(y.version) <= VersionRank(x.version)}

\* the entities the referenced expectation and the query scope expect a claim of
ExpectedSet(ents, exps, qq) ==
    {e \in ents :
        \E x \in ReferencedExpectation(exps, qq) :
            /\ x.rule.entity_filter = NULL \/ e.entity_type = x.rule.entity_filter
            /\ InScope(e, The(qq.absence).scope)}

HasClaim(e, exps, rows, qq) ==
    \E x \in ReferencedExpectation(exps, qq), r \in rows :
        r.subject_id = e.entity_id /\ r.claim_type = x.rule.claim_type

\* C11: absence computation is set difference: computed_absences holds exactly
\* one row for each entity of the expected set (the referenced expectation's
\* entity filter and the query scope) that has no visibility_filtered row of
\* the expectation's claim_type, and no row for any other entity, whatever
\* the tables hold (several stored versions of the expectation included).
C11_AbsenceIsSetDifference ==
    pc = "computed_absences" =>
        /\ absences.status = "ok"
        /\ \A e \in entities :
              Cardinality({a \in absences.rows : a.expected_entity_id = e.entity_id})
                = IF e \in ExpectedSet(entities, expectations, q)
                     /\ ~HasClaim(e, expectations, vf, q)
                  THEN 1 ELSE 0

----------------------------------------------------------------------------
(* PostgresExecutor: execute, result mapping, conflict detection and the    *)
(* transaction calls. The store behind the connection is an input: the rows *)
(* it returns for the statement, or the exception it raises.                *)

\* a key a raw row (a dict) does not hold
MISSING == "<missing>"

ExecutionMode == {"STRICT", "ANNOTATED", "EXPLAIN"}

\* the keys _map_results pops from a raw row, and the keys it leaves in data
PoppedKeys ==
    {"frame_id", "frame_version", "visibility_scope", "assertion_mode",
     "certainty", "method", "assertion_id", "source_id"}
DataKeys ==
    {"subject_id", "claim_type", "claim_content", "entity_id",
     "absence_id", "expected_entity_id"}

\* rows of the CLAIMS projection
ClaimRow(a, subj, type, content) ==
    [k \in PoppedKeys \cup DataKeys |->
        CASE k = "assertion_id" -> a
          [] k = "subject_id" -> subj
          [] k = "claim_type" -> type
          [] k = "claim_content" -> content
          [] k = "frame_id" -> "F_official"
          [] k = "frame_version" -> "1.0"
          [] k = "visibility_scope" -> "hidden"
          [] k = "assertion_mode" -> "MEANT"
          [] k \in {"certainty", "method", "source_id"} -> NULL
          [] OTHER -> MISSING]

\* rows of the ENTITIES projection: entity_id, claim_type, claim_content, frame_id
EntityRow(e, type, content) ==
    [k \in PoppedKeys \cup DataKeys |->
        CASE k = "entity_id" -> e
          [] k = "claim_type" -> type
          [] k = "claim_content" -> content
          [] k = "frame_id" -> "F_official"
          [] OTHER -> MISSING]

\* rows of computed_absences
ComputedAbsenceRow(id, e) ==
    [k \in PoppedKeys \cup DataKeys |->
        CASE k = "absence_id" -> id
          [] k = "expected_entity_id" -> e
          [] k = "frame_id" -> "F_default"
          [] k = "frame_version" -> "latest"
          [] OTHER -> MISSING]

\* dict.pop(key, default) / dict.get(key, default)
Pop(raw, key, default) == IF raw[key] = MISSING THEN default ELSE raw[key]

\* context.get(key, default) on query_context or {}
ContextGet(ctx, key, default) == IF IsNone(ctx) THEN default ELSE The(ctx)[key]

\* the EpistemicMetadata template execute builds from the context
epistemic_template(ctx) ==
    [frame_id |-> ContextGet(ctx, "frame_id", "F_default"),
     frame_version |-> ContextGet(ctx, "frame_version", "latest"),
     time_projection |-> ContextGet(ctx, "time_projection", "AS_OF"),
     time_value |-> ContextGet(ctx, "time_value", <<"">>),
     visibility |-> ContextGet(ctx, "visibility", "VISIBLE"),
     mode |-> ContextGet(ctx, "mode", "GIVEN"),
     has_conflicts |-> FALSE,
     conflict_ids |-> <<>>,
     conflict_policy |-> ContextGet(ctx, "conflict_policy", "EXPOSE_ALL"),
     grounding_depth |-> 0,
     grounding_refs |-> <<>>,
     certainty |-> NULL,
     certainty_method |-> NULL]

\* _map_results, taking the first row only when the store returned any
map_results_first_only(raw_rows, template) ==
    IF raw_rows = <<>> THEN <<>>
    ELSE <<[data |-> [k \in DataKeys |-> raw_rows[1][k]],
            epistemic |-> template,
            assertion_id |-> Pop(raw_rows[1], "assertion_id", NULL),
            source_id |-> Pop(raw_rows[1], "source_id", NULL)]>>

\* _map_results: one ResultRow per raw row, in order
map_results(raw_rows, template) ==
    [i \in DOMAIN raw_rows |->
        [data |-> [k \in DataKeys |-> raw_rows[i][k]],
         epistemic |->
            [template EXCEPT
                !.frame_id = Pop(raw_rows[i], "frame_id", template.frame_id),
                !.frame_version = Pop(raw_rows[i], "frame_version", template.frame_version),
                !.visibility = Pop(raw_rows[i], "visibility_scope", template.visibility),
                !.mode = Pop(raw_rows[i], "assertion_mode", template.mode),
                !.certainty = Pop(raw_rows[i], "certainty", NULL),
                !.certainty_method = Pop(raw_rows[i], "method", NULL)],
         assertion_id |-> Pop(raw_rows[i], "assertion_id", NULL),
         source_id |-> Pop(raw_rows[i], "source_id", NULL)]]

Min(S) == CHOOSE x \in S : \A y \in S : x <= y

\* the elements of a set of numbers, ascending
RECURSIVE Ascending(_)
Ascending(S) == IF S = {} THEN <<>> ELSE <<Min(S)>> \o Ascending(S \ {Min(S)})

\* row.data.get("subject_id") and row.data.get("claim_type", "unknown")
SubjectOf(row) == Pop(row.data, "subject_id", NULL)
ClaimTypeOf(row) == Pop(row.data, "claim_type", "unknown")

\* by_subject[subject_id]: positions of the rows filed under the subject of row i
SubjectRows(rows, i) == {j \in DOMAIN rows : SubjectOf(rows[j]) = SubjectOf(rows[i])}

\* claim_types[ct] within that subject
ClaimTypeRows(rows, i) ==
    {j \in SubjectRows(rows, i) : ClaimTypeOf(rows[j]) = ClaimTypeOf(rows[i])}

\* _detect_conflicts: rows with a subject_id are grouped by subject and then by
\* claim_type, both dicts in insertion order; a group of more than one row
\* becomes a cluster. A cluster's rows are the ResultRow objects themselves:
\* their positions in the result list. cluster_id is a fresh uuid4, one per
\* cluster: the position of the group's first row stands for it.
detect_conflicts(rows) ==
    LET first == {i \in DOMAIN rows :
                     /\ Truthy(SubjectOf(rows[i]))
                     /\ i = Min(ClaimTypeRows(rows, i))
                     /\ Cardinality(ClaimTypeRows(rows, i)) > 1}
        key(i) == Min(SubjectRows(rows, i)) * (Len(rows) + 1) + i
        order == Ascending({key(i) : i \in first})
    IN  [n \in DOMAIN order |->
            LET i == CHOOSE j \in first : key(j) = order[n]
            IN  [cluster_id |-> i,
                 conflict_type |-> "competing",
                 rows |-> Ascending(ClaimTypeRows(rows, i)),
                 resolution_status |-> "unresolved"]]

\* conflict_row_ids: the assertion ids of the clusters' rows that have one
conflict_row_ids(rows, conflicts) ==
    UNION {{rows[j].assertion_id : j \in Range(conflicts[n].rows)} : n \in DOMAIN conflicts}
    \ {NULL, ""}

\* for row in result_rows: if row.assertion_id in conflict_row_ids: mark it
mark_conflicts(rows, conflicts) ==
    [i \in DOMAIN rows |->
        IF rows[i].assertion_id \in conflict_row_ids(rows, conflicts)
        THEN [rows[i] EXCEPT !.epistemic.has_conflicts = TRUE]
        ELSE rows[i]]

\* the QueryResult of an executed statement (query_id and the clock readings
\* are fresh values no claim reads)
QueryResult(pl, ctx, raw_rows) ==
    LET template == epistemic_template(ctx)
        result_rows == map_results(raw_rows, template)
        conflicts == detect_conflicts(result_rows)
    IN  [rows |-> mark_conflicts(result_rows, conflicts),
         conflicts |-> conflicts,
         absences |-> <<>>,
         executed_sql |-> pl.sql,
         frame_id |-> template.frame_id,
         frame_version |-> template.frame_version,
         time_projection |-> template.time_projection,
         conflict_policy |-> template.conflict_policy,
         notes |-> pl.notes]

\* the QueryResult of EXPLAIN mode
ExplainResult(pl) ==
    [rows |-> <<>>, conflicts |-> <<>>, absences |-> <<>>,
     executed_sql |-> pl.sql,
     frame_id |-> NULL, frame_version |-> NULL, time_projection |-> NULL,
     conflict_policy |-> NULL,
     notes |-> Append(pl.notes, <<"EXPLAIN mode: query not executed">>)]

\* a call on the executor: the method, the mode passed to execute, how the
\* call ended ("returned" or the exception raised), the raw rows the store
\* handed over, and whether a transaction was open when the call was made
Call(op, mode, outcome, raw, open_before) ==
    [op |-> op, mode |-> mode, outcome |-> outcome, raw |-> raw,
     open_before |-> open_before]

(* The plans executed and what the store can return for them *)

PickOne == ReturnSpec("PICK_ONE", Some(SelectionRule("highest_certainty")))

ExecQueries ==
    {BaseQuery,
     [BaseQuery EXCEPT !.returns = PickOne],
     [BaseQuery EXCEPT !.target = "ENTITIES"],
     [BaseQuery EXCEPT !.target = "ABSENCES",
                       !.absence = Some(AbsenceSpec(ExpectationRef("EXP_daily_check", "1.0"), <<>>))]}

ClaimRows ==
    {ClaimRow("a1", "s1", "temperature", "20"), ClaimRow("a2", "s1", "temperature", "25"),
     ClaimRow("a3", "s1", "humidity", "40"), ClaimRow(NULL, "s2", "temperature", "30")}

EntityRows ==
    {EntityRow("e1", "temperature", "20"), EntityRow("e1", "temperature", "25"),
     EntityRow("e2", "temperature", "20")}

ComputedAbsenceRows == {ComputedAbsenceRow("ab1", "e1"), ComputedAbsenceRow("ab2", "e2")}

\* the row lists cursor.fetchall() can hand back for the plan of query qq
StoreRows(qq) ==
    LET U == CASE qq.target = "ABSENCES" -> ComputedAbsenceRows
               [] qq.target = "ENTITIES" -> EntityRows
               [] OTHER -> ClaimRows
    IN  UNION {[1..n -> U] : n \in 0..MaxRows}

InitExec ==
    /\ pc = "executor"
    /\ q \in ExecQueries
    /\ plan = Compile(q)
    /\ connection \in {"none", "open"}
    /\ autocommit \in BOOLEAN
    /\ connection = "none" => ~autocommit
    /\ store_rows \in IF connection = "none" THEN {<<>>} ELSE StoreRows(q)
    /\ in_transaction = FALSE
    /\ last = NoCall
    /\ result = NoResult
    /\ bstate = NoQuery /\ errors = <<>>
    /\ StoreIdle /\ AbsIdle /\ RegIdle /\ FnIdle

\* begin_transaction()
BeginTransaction ==
    /\ pc = "executor"
    /\ IF connection = "open"
       THEN autocommit' = FALSE /\ in_transaction' = TRUE
       ELSE UNCHANGED <<autocommit, in_transaction>>
    /\ last' = Call("begin_transaction", NULL, "returned", <<>>, in_transaction)
    /\ UNCHANGED <<connection, store_rows, result>>
    /\ UNCHANGED <<pc, pipeVars, storeVars, absVars, regVars, fnVars>>

\* commit()
Commit ==
    /\ pc = "executor"
    /\ IF connection = "open" /\ in_transaction
       THEN in_transaction' = FALSE
       ELSE UNCHANGED in_transaction
    /\ last' = Call("commit", NULL, "returned", <<>>, in_transaction)
    /\ UNCHANGED <<connection, autocommit, store_rows, result>>
    /\ UNCHANGED <<pc, pipeVars, storeVars, absVars, regVars, fnVars>>

\* rollback()
Rollback ==
    /\ pc = "executor"
    /\ IF connection = "open" /\ in_transaction
       THEN in_transaction' = FALSE
       ELSE UNCHANGED in_transaction
    /\ last' = Call("rollback", NULL, "returned", <<>>, in_transaction)
    /\ UNCHANGED <<connection, autocommit, store_rows, result>>
    /\ UNCHANGED <<pc, pipeVars, storeVars, absVars, regVars, fnVars>>

\* close(): rolls back an open transaction, closes and drops the connection
Close ==
    /\ pc = "executor"
    /\ IF connection = "open"
       THEN connection' = "none" /\ in_transaction' = FALSE
       ELSE UNCHANGED <<connection, in_transaction>>
    /\ last' = Call("close", NULL, "returned", <<>>, in_transaction)
    /\ UNCHANGED <<autocommit, store_rows, result>>
    /\ UNCHANGED <<pc, pipeVars, storeVars, absVars, regVars, fnVars>>

\* execute(plan, EXPLAIN, ...): the plan is returned, nothing is run
ExecuteExplain ==
    /\ pc = "executor"
    /\ result' = ExplainResult(plan)
    /\ last' = Call("execute", "EXPLAIN", "returned", <<>>, in_transaction)
    /\ UNCHANGED <<connection, autocommit, store_rows, in_transaction>>
    /\ UNCHANGED <<pc, pipeVars, storeVars, absVars, regVars, fnVars>>

\* execute(plan, mode, query_context) with the statement succeeding: without a
\* connection _execute_sql returns no rows; with one, what the store returns
ExecuteReturns ==
    /\ pc = "executor"
    /\ \E mode \in {"STRICT", "ANNOTATED"}, ctx \in {None, Some(plan.context)} :
          LET raw == IF connection = "none" THEN <<>> ELSE store_rows
          IN  /\ result' = QueryResult(plan, ctx, raw)
              /\ last' = Call("execute", mode, "returned", raw, in_transaction)
    /\ UNCHANGED <<connection, autocommit, store_rows, in_transaction>>
    /\ UNCHANGED <<pc, pipeVars, storeVars, absVars, regVars, fnVars>>

\* execute(plan, mode, query_context) with cursor.execute raising: the
\* exception is wrapped in ExecutionError and raised
ExecuteFails ==
    /\ pc = "executor"
    /\ connection = "open"
    /\ \E mode \in {"STRICT", "ANNOTATED"} :
          last' = Call("execute", mode, "ExecutionError", <<>>, in_transaction)
    /\ result' = NoResult
    /\ UNCHANGED <<connection, autocommit, store_rows, in_transaction>>
    /\ UNCHANGED <<pc, pipeVars, storeVars, absVars, regVars, fnVars>>

NextExec ==
    \/ BeginTransaction
    \/ Commit
    \/ Rollback
    \/ Close
    \/ ExecuteExplain
    \/ ExecuteReturns
    \/ ExecuteFails

SpecExec == InitExec /\ [][NextExec]_vars

\* an execute call that ran the statement and returned its QueryResult
Executed == last.op = "execute" /\ last.outcome = "returned" /\ last.mode # "EXPLAIN"

\* a step that is execute(plan, mode) with no query_context, returning
ExecutedWithoutContext ==
    /\ pc = "executor"
    /\ \E mode \in {"STRICT", "ANNOTATED"} :
          LET raw == IF connection = "none" THEN <<>> ELSE store_rows
          IN  /\ result' = QueryResult(plan, None, raw)
              /\ last' = Call("execute", mode, "returned", raw, in_transaction)

\* every row of the result carries the plan's context: its time projection,
\* time value and conflict policy, and its frame, visibility and mode where
\* the raw row has no such column
LabelledByPlan ==
    \A i \in DOMAIN result.rows :
        LET e == result.rows[i].epistemic
            raw == last.raw[i]
            c == plan.context
        IN  /\ e.time_projection = c.time_projection
            /\ <<e.time_value>> = <<c.time_value>>
            /\ e.conflict_policy = c.conflict_policy
            /\ raw["frame_id"] = MISSING => e.frame_id = c.frame_id
            /\ raw["frame_version"] = MISSING => e.frame_version = c.frame_version
            /\ raw["visibility_scope"] = MISSING => e.visibility = c.visibility
            /\ raw["assertion_mode"] = MISSING => e.mode = c.mode

\* C30: results are labelled with the query that produced them: when a plan
\* compiled from query q is executed with no explicit query_context, every
\* ResultRow's time_projection, time_value and conflict_policy, and the
\* frame, visibility and mode used for rows lacking those columns, equal q's
\* values as recorded in the plan's execution context.
C30_LabelledByPlanContext == [][ExecutedWithoutContext => LabelledByPlan']_vars

\* the rows of the result that share subject_id and claim_type with row i
GroupOf(rows, i) ==
    {j \in DOMAIN rows :
        /\ rows[j].data.subject_id = rows[i].data.subject_id
        /\ rows[j].data.claim_type = rows[i].data.claim_type}

\* C12: conflict detection: the returned conflicts hold exactly one cluster,
\* of type 'competing', for each (subject_id, claim_type) group of more than
\* one row, with exactly the group's rows, and no cluster for any other group.
C12_OneClusterPerGroup ==
    Executed =>
        /\ \A i \in DOMAIN result.rows :
              Cardinality(GroupOf(result.rows, i)) > 1 =>
                  Cardinality({n \in DOMAIN result.conflicts :
                                  /\ Range(result.conflicts[n].rows) = GroupOf(result.rows, i)
                                  /\ result.conflicts[n].conflict_type = "competing"}) = 1
        /\ \A n \in DOMAIN result.conflicts :
              /\ Len(result.conflicts[n].rows) > 1
              /\ Range(result.conflicts[n].rows)
                    = GroupOf(result.rows, result.conflicts[n].rows[1])

\* C13: after execute every row that is a member of a returned cluster has
\* has_conflicts set and conflict_ids holding the ids of the cluster's
\* members, rows without an assertion_id included.
C13_MembersMarked ==
    Executed =>
        \A n \in DOMAIN result.conflicts :
            \A j \in Range(result.conflicts[n].rows) :
                /\ result.rows[j].epistemic.has_conflicts
                /\ Range(result.rows[j].epistemic.conflict_ids)
                      = {result.rows[k].assertion_id : k \in Range(result.conflicts[n].rows)}
                        \ {NULL}

\* C14: the executor never collapses rows: in ANNOTATED mode execute returns
\* one ResultRow per raw row of the store, in the same order, each with its
\* epistemic metadata, and every row of a conflict cluster is still among
\* them, under every conflict policy.
C14_NoRowCollapsed ==
    (Executed /\ last.mode = "ANNOTATED") =>
        /\ Len(result.rows) = Len(last.raw)
        /\ \A i \in DOMAIN result.rows :
              /\ result.rows[i].data = [k \in DataKeys |-> last.raw[i][k]]
              /\ result.rows[i].assertion_id = Pop(last.raw[i], "assertion_id", NULL)
              /\ result.rows[i].epistemic.conflict_policy = result.conflict_policy
        /\ \A n \in DOMAIN result.conflicts :
              Range(result.conflicts[n].rows) \subseteq DOMAIN result.rows

\* three rows came back for a PICK_ONE plan, two of them competing: all three
\* are in the result, in the store's order
C14_Witness ==
    /\ Executed /\ last.mode = "ANNOTATED"
    /\ q.returns.conflict_policy = "PICK_ONE"
    /\ result.conflict_policy = "PICK_ONE"
    /\ Len(last.raw) = 3
    /\ Len(result.conflicts) = 1
    /\ result.rows[1].data.claim_content = "25"
    /\ result.rows[2].data.claim_content = "40"
    /\ result.rows[3].data.claim_content = "20"

\* C15: executing a plan compiled for target=ABSENCES returns every absence
\* row of the store as an AbsenceResult in QueryResult.absences.
C15_AbsencesReturned ==
    (Executed /\ q.target = "ABSENCES") =>
        Len(result.absences) = Len(last.raw)

\* C16: single in-flight transaction: a begin_transaction issued while a
\* transaction is open is reported as an error, so that no second
\* transaction is ever opened beside the first.
C16_SecondBeginRejected ==
    (last.op = "begin_transaction" /\ last.open_before) => last.outcome # "returned"

\* C17: rollback precedes surfacing an execution failure: after an execute
\* that raised ExecutionError no transaction is left open on the executor.
C17_RollbackOnFailure ==
    (last.op = "execute" /\ last.outcome = "ExecutionError") => ~in_transaction

\* C18: STRICT mode aborts on ambiguity: execute in STRICT mode never returns
\* a QueryResult whose rows hold a conflict cluster.
C18_StrictAborts ==
    (Executed /\ last.mode = "STRICT") => result.conflicts = <<>>

----------------------------------------------------------------------------
(* FrameRegistry over InMemoryFrameStore. ExpectationRegistry and           *)
(* InMemoryExpectationStore have the same get / put / resolve / register,   *)
(* without the default entry. The ids and version keys of the model hold no *)
(* ':', so that a cache key "id:version" is the pair of its two parts.      *)

FrameDefinition(frame_id, version, name) ==
    [frame_id |-> frame_id, version |-> version, name |-> name]

\* store.get found nothing
NoFrame == [frame_id |-> NULL]

\* _init_default_frame
DefaultFrame == FrameDefinition("F_default", "latest", "Default Frame")

\* the version keys of the model in the order sorted() puts these strings
KeyOrder == <<"", "1.0", "10.0", "2.0", "latest">>
KeyRank(v) == CHOOSE i \in DOMAIN KeyOrder : KeyOrder[i] = v

\* InMemoryFrameStore.get
store_get(frames, frame_id, version) ==
    LET versions == {d \in frames : d.frame_id = frame_id}
    IN  IF versions = {} THEN NoFrame
        ELSE IF version = NULL \/ version = "latest"
        THEN IF \E d \in versions : d.version = "latest"
             THEN CHOOSE d \in versions : d.version = "latest"
             ELSE CHOOSE d \in versions :
                     \A e \in versions : KeyRank(e.version) <= KeyRank(d.version)
        ELSE IF \E d \in versions : d.version = version
             THEN CHOOSE d \in versions : d.version = version
             ELSE NoFrame

\* a put that keeps nothing but the frame it stores
store_put_alone(frames, frame) == {frame}

\* InMemoryFrameStore.put
store_put(frames, frame) ==
    {d \in frames : ~(d.frame_id = frame.frame_id /\ d.version = frame.version)}
    \cup {frame}

\* cache_key = f"{ref.frame_id}:{ref.version or 'latest'}"
cache_key(ref) == <<ref.frame_id, OrElse(ref.version, "latest")>>

\* cache_key in self._cache, and self._cache[cache_key]
Cached(c, key) == \E e \in c : e[1] = key
CacheAt(c, key) == (CHOOSE e \in c : e[1] = key)[2]

\* self._cache[cache_key] = frame
cache_set(c, key, frame) == {e \in c : e[1] # key} \cup {<<key, frame>>}

\* keys_to_remove = [k for k in self._cache if k.startswith(f"{frame_id}:")]
keys_to_remove(c, frame_id) == {e[1] : e \in {x \in c : x[1][1] = frame_id}}

\* for k in keys_to_remove: del self._cache[k]
cache_remove(c, keys) == {e \in c : e[1] \notin keys}

\* a registry call by the single caller: resolve(ref) or register(frame)
RegistryCall(op, ref, outcome, frame) ==
    [op |-> op, ref |-> ref, outcome |-> outcome, frame |-> frame]

(* One caller: every call runs from start to end *)

Registered ==
    {FrameDefinition("F", v, n) : v \in {"", "2.0", "10.0", "latest"}, n \in {"n1", "n2"}}
    \cup {FrameDefinition("F_default", "latest", "n1"), FrameDefinition("F_default", "2.0", "n1")}

Resolved ==
    {FrameRef(id, v) : id \in {"F", "F_default", "F_nonexistent"},
                       v \in {NULL, "", "2.0", "10.0", "latest"}}

InitRegistry ==
    /\ pc = "registry"
    /\ store = {DefaultFrame}
    /\ cache = {}
    /\ reg_last = NoCall
    /\ threads = <<>>
    /\ q = NoQuery /\ bstate = NoQuery /\ errors = <<>> /\ plan = NoPlan
    /\ StoreIdle /\ AbsIdle /\ ExecIdle /\ FnIdle

\* FrameRegistry.register(frame)
Register ==
    /\ pc = "registry"
    /\ \E frame \in Registered :
          /\ store' = store_put(store, frame)
          /\ cache' = cache_remove(cache, keys_to_remove(cache, frame.frame_id))
          /\ reg_last' = RegistryCall("register", FrameRef(frame.frame_id, frame.version),
                                      "returned", frame)
    /\ UNCHANGED <<pc, threads, pipeVars, storeVars, absVars, execVars, fnVars>>

\* FrameRegistry.resolve(ref), called as op
resolve(op, ref) ==
    LET key == cache_key(ref)
        frame == store_get(store, ref.frame_id, ref.version)
    IN  IF Cached(cache, key)
        THEN /\ reg_last' = RegistryCall(op, ref, "returned", CacheAt(cache, key))
             /\ UNCHANGED cache
        ELSE IF frame = NoFrame
        THEN /\ reg_last' = RegistryCall(op, ref, "FrameNotFoundError", NoFrame)
             /\ UNCHANGED cache
        ELSE /\ reg_last' = RegistryCall(op, ref, "returned", frame)
             /\ cache' = cache_set(cache, key, frame)

Resolve ==
    /\ pc = "registry"
    /\ \E ref \in Resolved : resolve("resolve", ref)
    /\ UNCHANGED <<pc, store, threads, pipeVars, storeVars, absVars, execVars, fnVars>>

\* FrameRegistry.get_default()
GetDefault ==
    /\ pc = "registry"
    /\ resolve("get_default", FrameRef("F_default", "latest"))
    /\ UNCHANGED <<pc, store, threads, pipeVars, storeVars, absVars, execVars, fnVars>>

\* FrameRegistry.clear_cache()
ClearCache ==
    /\ pc = "registry"
    /\ cache' = {}
    /\ reg_last' = RegistryCall("clear_cache", FrameRef(NULL, NULL), "returned", NoFrame)
    /\ UNCHANGED <<pc, store, threads, pipeVars, storeVars, absVars, execVars, fnVars>>

NextRegistry ==
    \/ Register
    \/ Resolve
    \/ GetDefault
    \/ ClearCache

SpecRegistry == InitRegistry /\ [][NextRegistry]_vars

\* what the store holds for an id: its definitions by version key
Held(frames, frame_id) == {d \in frames : d.frame_id = frame_id}

\* the definition the resolution rule names for ref (NoFrame: none)
RuleNames(frames, ref) ==
    LET held == Held(frames, ref.frame_id)
    IN  IF held = {} THEN NoFrame
        ELSE IF ref.version \in {NULL, "latest"}
        THEN IF \E d \in held : d.version = "latest"
             THEN CHOOSE d \in held : d.version = "latest"
             ELSE CHOOSE d \in held : \A e \in held : KeyRank(e.version) <= KeyRank(d.version)
        ELSE IF \E d \in held : d.version = ref.version
             THEN CHOOSE d \in held : d.version = ref.version
             ELSE NoFrame

\* C19: version resolution after any sequence of register calls: an explicit
\* version resolves to exactly the definition registered under that
\* (id, version), or raises NotFound if there is none; None or 'latest'
\* resolves to the definition under the key 'latest' if there is one, else to
\* the one under the highest version key; an unknown id raises NotFound.
C19_VersionResolution ==
    (pc = "registry" /\ reg_last.op = "resolve") =>
        IF RuleNames(store, reg_last.ref) = NoFrame
        THEN reg_last.outcome = "FrameNotFoundError"
        ELSE /\ reg_last.outcome = "returned"
             /\ reg_last.frame = RuleNames(store, reg_last.ref)

\* C21: published definitions are immutable: no register call changes what
\* an already registered (id, version) resolves to; the definition stored
\* under that key before the call is the one stored under it afterwards.
C21_PublishedImmutable ==
    [][\A d \in store : \E e \in store' :
           e.frame_id = d.frame_id /\ e.version = d.version /\ e = d]_vars

\* C22: the default frame always exists: after construction and after any
\* sequence of register, resolve and clear_cache calls the store resolves
\* F_default, and a resolve of F_default (version None or 'latest') or a
\* get_default returns a definition whose frame_id is 'F_default'.
C22_DefaultFrameExists ==
    pc = "registry" =>
        /\ store_get(store, "F_default", NULL).frame_id = "F_default"
        /\ (/\ reg_last.op \in {"resolve", "get_default"}
            /\ reg_last.ref.frame_id = "F_default"
            /\ reg_last.ref.version \in {NULL, "latest"})
           => (reg_last.outcome = "returned" /\ reg_last.frame.frame_id = "F_default")

C22_Witness ==
    /\ pc = "registry"
    /\ reg_last.op = "get_default"
    /\ reg_last.frame = FrameDefinition("F_default", "latest", "n1")
    /\ FrameDefinition("F_default", "2.0", "n1") \in store
    /\ \E d \in store : d.frame_id = "F"

----------------------------------------------------------------------------
(* Several callers on one FrameRegistry. Neither the registry nor the store *)
(* takes a lock, so calls interleave between their statements: resolve is   *)
(* the membership test, the cache read, store.get and the cache write;      *)
(* register is store.put, the collection of keys_to_remove and the          *)
(* deletions. threads[1] and threads[2] call resolve, threads[3] calls      *)
(* register. started_after_register records that the resolve call started   *)
(* after a register call had returned, with no register call since.         *)

Resolvers == {1, 2}
Registrar == 3

Resolver(at, ref, frame, outcome, started_after_register) ==
    [at |-> at, ref |-> ref, frame |-> frame, outcome |-> outcome,
     started_after_register |-> started_after_register]

RegistrarThread(at, frame, keys, returned) ==
    [at |-> at, frame |-> frame, keys |-> keys, returned |-> returned]

ConcurrentlyRegistered ==
    {FrameDefinition("F", "1.0", "n2"), FrameDefinition("F", "2.0", "n1")}

ConcurrentlyResolved == {FrameRef("F", NULL), FrameRef("F", "1.0")}

InitRegistryConc ==
    /\ pc = "registry_threads"
    /\ store = {DefaultFrame, FrameDefinition("F", "1.0", "n1")}
    /\ cache = {}
    /\ reg_last = NoCall
    /\ threads = << Resolver("idle", FrameRef(NULL, NULL), NoFrame, NULL, FALSE),
                    Resolver("idle", FrameRef(NULL, NULL), NoFrame, NULL, FALSE),
                    RegistrarThread("idle", NoFrame, {}, FALSE) >>
    /\ q = NoQuery /\ bstate = NoQuery /\ errors = <<>> /\ plan = NoPlan
    /\ StoreIdle /\ AbsIdle /\ ExecIdle /\ FnIdle

OtherGroupsUnchanged == UNCHANGED <<pc, reg_last, pipeVars, storeVars, absVars, execVars, fnVars>>

\* resolve, line 198: if cache_key in self._cache
ResolveTest(t) ==
    /\ pc = "registry_threads"
    /\ threads[t].at \in {"idle", "done"}
    /\ \E ref \in ConcurrentlyResolved :
          threads' = [threads EXCEPT ![t] =
              Resolver(IF Cached(cache, cache_key(ref)) THEN "hit" ELSE "miss",
                       ref, NoFrame, NULL,
                       threads[Registrar].at = "idle" /\ threads[Registrar].returned)]
    /\ UNCHANGED <<store, cache>>
    /\ OtherGroupsUnchanged

\* resolve, line 199: return self._cache[cache_key]
ResolveRead(t) ==
    /\ pc = "registry_threads"
    /\ threads[t].at = "hit"
    /\ LET key == cache_key(threads[t].ref)
       IN  threads' = [threads EXCEPT ![t] =
              IF Cached(cache, key)
              THEN [@ EXCEPT !.at = "done", !.outcome = "returned",
                             !.frame = CacheAt(cache, key)]
              ELSE [@ EXCEPT !.at = "done", !.outcome = "KeyError"]]
    /\ UNCHANGED <<store, cache>>
    /\ OtherGroupsUnchanged

\* resolve, lines 201-203: frame = self._store.get(...); raise if None
ResolveGet(t) ==
    /\ pc = "registry_threads"
    /\ threads[t].at = "miss"
    /\ LET frame == store_get(store, threads[t].ref.frame_id, threads[t].ref.version)
       IN  threads' = [threads EXCEPT ![t] =
              IF frame = NoFrame
              THEN [@ EXCEPT !.at = "done", !.outcome = "FrameNotFoundError"]
              ELSE [@ EXCEPT !.at = "got", !.frame = frame]]
    /\ UNCHANGED <<store, cache>>
    /\ OtherGroupsUnchanged

\* resolve, lines 205-206: self._cache[cache_key] = frame; return frame
ResolveCache(t) ==
    /\ pc = "registry_threads"
    /\ threads[t].at = "got"
    /\ cache' = cache_set(cache, cache_key(threads[t].ref), threads[t].frame)
    /\ threads' = [threads EXCEPT ![t] = [@ EXCEPT !.at = "done", !.outcome = "returned"]]
    /\ UNCHANGED store
    /\ OtherGroupsUnchanged

\* register, line 210: self._store.put(frame)
RegisterPut ==
    /\ pc = "registry_threads"
    /\ threads[Registrar].at = "idle"
    /\ \E frame \in ConcurrentlyRegistered :
          /\ store' = store_put(store, frame)
          /\ threads' = [t \in DOMAIN threads |->
                IF t = Registrar
                THEN RegistrarThread("put", frame, {}, threads[t].returned)
                ELSE [threads[t] EXCEPT !.started_after_register = FALSE]]
    /\ UNCHANGED cache
    /\ OtherGroupsUnchanged

\* register, line 212: keys_to_remove = [...]
RegisterCollect ==
    /\ pc = "registry_threads"
    /\ threads[Registrar].at = "put"
    /\ threads' = [threads EXCEPT ![Registrar] =
          [@ EXCEPT !.at = "collected",
                    !.keys = keys_to_remove(cache, threads[Registrar].frame.frame_id)]]
    /\ UNCHANGED <<store, cache>>
    /\ OtherGroupsUnchanged

\* register, lines 213-214: for k in keys_to_remove: del self._cache[k]
RegisterDelete ==
    /\ pc = "registry_threads"
    /\ threads[Registrar].at = "collected"
    /\ cache' = cache_remove(cache, threads[Registrar].keys)
    /\ threads' = [threads EXCEPT ![Registrar] =
          [@ EXCEPT !.at = "idle", !.keys = {}, !.returned = TRUE]]
    /\ UNCHANGED store
    /\ OtherGroupsUnchanged

NextRegistryConc ==
    \/ \E t \in Resolvers : ResolveTest(t)
    \/ \E t \in Resolvers : ResolveRead(t)
    \/ \E t \in Resolvers : ResolveGet(t)
    \/ \E t \in Resolvers : ResolveCache(t)
    \/ RegisterPut
    \/ RegisterCollect
    \/ RegisterDelete

SpecRegistryConc == InitRegistryConc /\ [][NextRegistryConc]_vars

\* C20: no stale cached definition: a resolve call that started after a
\* register call had completed (and with no register call since) ends with
\* the definition the store now holds for its reference, never with a
\* definition cached before the registration, under every interleaving of
\* the resolve calls that ran concurrently with the register call.
C20_NoStaleCachedDefinition ==
    pc = "registry_threads" =>
        \A t \in Resolvers :
            (threads[t].at = "done" /\ threads[t].started_after_register) =>
                /\ threads[t].outcome = "returned"
                /\ threads[t].frame =
                      store_get(store, threads[t].ref.frame_id, threads[t].ref.version)

----------------------------------------------------------------------------
(* ExpectationRegistry.compute_absence_window. A datetime is its civil      *)
(* fields to the minute; a timedelta is a number of minutes. The arithmetic *)
(* of datetime goes through the proleptic Gregorian ordinal of the date.    *)

datetime(year, month, day, hour, minute) ==
    [year |-> year, month |-> month, day |-> day, hour |-> hour, minute |-> minute]

is_leap(y) == y % 4 = 0 /\ (y % 100 # 0 \/ y % 400 = 0)

days_in_month(y, m) ==
    IF m = 2 THEN (IF is_leap(y) THEN 29 ELSE 28)
    ELSE IF m \in {4, 6, 9, 11} THEN 30 ELSE 31

\* days before January 1st of year y
days_before_year(y) ==
    (y - 1) * 365 + (y - 1) \div 4 - (y - 1) \div 100 + (y - 1) \div 400

RECURSIVE days_before_month(_, _)
days_before_month(y, m) ==
    IF m = 1 THEN 0 ELSE days_before_month(y, m - 1) + days_in_month(y, m - 1)

toordinal(dt) == days_before_year(dt.year) + days_before_month(dt.year, dt.month) + dt.day

\* the years the dates of the model fall in
CalendarYears == 2023..2026

fromordinal(n, hour, minute) ==
    LET y == CHOOSE yy \in CalendarYears :
                 days_before_year(yy) < n /\ n <= days_before_year(yy + 1)
        r == n - days_before_year(y)
        m == CHOOSE mm \in 1..12 :
                 /\ days_before_month(y, mm) < r
                 /\ r <= days_before_month(y, mm) + days_in_month(y, mm)
    IN  datetime(y, m, r - days_before_month(y, m), hour, minute)

\* minutes since the start of ordinal day 0
Minutes(dt) == toordinal(dt) * 1440 + dt.hour * 60 + dt.minute

\* datetime + timedelta
plus(dt, delta) ==
    LET t == Minutes(dt) + delta
    IN  fromordinal(t \div 1440, (t % 1440) \div 60, t % 60)

\* datetime.weekday(): Monday is 0
weekday(dt) == (toordinal(dt) + 6) % 7

\* timedelta(hours=h), timedelta(days=d)
hours(h) == h * 60
days(d) == d * 1440

\* datetime.replace(hour=0, minute=0, second=0, microsecond=0)
midnight(dt) == [dt EXCEPT !.hour = 0, !.minute = 0]

ExpectationFrequency == {"once", "daily", "weekly", "monthly", "recurring", "continuous"}

\* deadline_hours is an Optional[int]
ExpectationRule(frequency, deadline_hours) ==
    [frequency |-> frequency, deadline_hours |-> deadline_hours]

\* active_from is an Optional[datetime]
ExpectationDefinition(rule, active_from) == [rule |-> rule, active_from |-> active_from]

\* ExpectationRule.get_deadline: an Optional[timedelta]
get_deadline(rule) ==
    IF ~IsNone(rule.deadline_hours) THEN Some(hours(The(rule.deadline_hours))) ELSE None

\* truth value of an Optional[timedelta]: None and timedelta(0) are false
TruthyDelta(o) == ~IsNone(o) /\ The(o) # 0

Window(start, end) == [start |-> start, end |-> end]

once_window(expectation, reference_time) ==
    LET deadline == get_deadline(expectation.rule)
        start == IF IsNone(expectation.active_from) THEN reference_time
                 ELSE The(expectation.active_from)
    IN  Window(start, IF TruthyDelta(deadline) THEN plus(start, The(deadline))
                      ELSE reference_time)

daily_window(reference_time) ==
    LET start == midnight(reference_time)
    IN  Window(start, plus(start, days(1)))

weekly_window(reference_time) ==
    LET days_since_monday == weekday(reference_time)
        start == midnight(plus(reference_time, 0 - days(days_since_monday)))
    IN  Window(start, plus(start, days(7)))

monthly_window(reference_time) ==
    LET start == [midnight(reference_time) EXCEPT !.day = 1]
    IN  Window(start, IF reference_time.month = 12
                      THEN [start EXCEPT !.year = start.year + 1, !.month = 1]
                      ELSE [start EXCEPT !.month = start.month + 1])

default_window(expectation, reference_time) ==
    LET deadline == get_deadline(expectation.rule)
    IN  IF TruthyDelta(deadline)
        THEN Window(plus(reference_time, 0 - The(deadline)), reference_time)
        ELSE Window(plus(reference_time, 0 - hours(24)), reference_time)

compute_absence_window(expectation, reference_time) ==
    LET frequency == expectation.rule.frequency
    IN  IF frequency = "once" THEN once_window(expectation, reference_time)
        ELSE IF frequency = "daily" THEN daily_window(reference_time)
        ELSE IF frequency = "weekly" THEN weekly_window(reference_time)
        ELSE IF frequency = "monthly" THEN monthly_window(reference_time)
        ELSE default_window(expectation, reference_time)

\* every minute 00 and 30 of three hours of every day of two years
ReferenceTimes ==
    UNION {UNION {{datetime(y, m, d, h, mi) : d \in 1..days_in_month(y, m),
                                              h \in {0, 14, 23}, mi \in {0, 30}}
                  : m \in 1..12} : y \in 2024..2025}

WindowExpectations ==
    {ExpectationDefinition(ExpectationRule(f, dl), af) :
        f \in ExpectationFrequency, dl \in {None, Some(0), Some(48)},
        af \in {None, Some(datetime(2025, 12, 25, 0, 0))}}

InitWindow ==
    /\ pc = "compute_absence_window"
    /\ call \in {[op |-> "compute_absence_window", expectation |-> e, reference_time |-> t] :
                    e \in WindowExpectations, t \in ReferenceTimes}
    /\ ret = NoCall
    /\ q = NoQuery /\ bstate = NoQuery /\ errors = <<>> /\ plan = NoPlan
    /\ StoreIdle /\ AbsIdle /\ ExecIdle /\ RegIdle

ComputeAbsenceWindow ==
    /\ pc = "compute_absence_window"
    /\ ret = NoCall
    /\ ret' = [op |-> "compute_absence_window",
               window |-> compute_absence_window(call.expectation, call.reference_time)]
    /\ UNCHANGED <<pc, call, pipeVars, storeVars, absVars, execVars, regVars>>

NextWindow == ComputeAbsenceWindow

SpecWindow == InitWindow /\ [][NextWindow]_vars

WindowReturned == pc = "compute_absence_window" /\ ret # NoCall

IsMidnight(dt) == dt.hour = 0 /\ dt.minute = 0

\* C23: the absence window, for every reference time ref:
\* ONCE (with active_from and a deadline) is [active_from, active_from + deadline];
\* DAILY is [midnight of ref's day, that midnight + 1 day];
\* WEEKLY is [Monday 00:00 of ref's week, + 7 days];
\* MONTHLY is [00:00 on the 1st of ref's month, 00:00 on the 1st of the next
\* month], December rolling over to January of the next year;
\* any other frequency with no deadline is [ref - 24h, ref].
C23_AbsenceWindow ==
    WindowReturned =>
        LET e == call.expectation
            f == e.rule.frequency
            t == call.reference_time
            w == ret.window
        IN  /\ (f = "once" /\ ~IsNone(e.active_from) /\ ~IsNone(e.rule.deadline_hours)) =>
                  /\ w.start = The(e.active_from)
                  /\ Minutes(w.end) = Minutes(The(e.active_from)) + 60 * The(e.rule.deadline_hours)
            /\ f = "daily" =>
                  /\ w.start = datetime(t.year, t.month, t.day, 0, 0)
                  /\ IsMidnight(w.end)
                  /\ toordinal(w.end) = toordinal(t) + 1
            /\ f = "weekly" =>
                  /\ IsMidnight(w.start) /\ IsMidnight(w.end)
                  /\ weekday(w.start) = 0
                  /\ toordinal(w.start) <= toordinal(t)
                  /\ toordinal(t) < toordinal(w.start) + 7
                  /\ toordinal(w.end) = toordinal(w.start) + 7
            /\ f = "monthly" =>
                  /\ w.start = datetime(t.year, t.month, 1, 0, 0)
                  /\ w.end = IF t.month = 12 THEN datetime(t.year + 1, 1, 1, 0, 0)
                             ELSE datetime(t.year, t.month + 1, 1, 0, 0)
            /\ (f \in {"recurring", "continuous"} /\ IsNone(e.rule.deadline_hours)) =>
                  /\ w.end = t
                  /\ Minutes(w.start) = Minutes(t) - 24 * 60

----------------------------------------------------------------------------
(* eoql/ir/serialize.py. A JSON text is the tree of values it denotes: a    *)
(* string, a number (its literal), true, false, null, an array (items: its  *)
(* elements) or an object (items: its <<key, value>> members in order).     *)
(* json.loads gives a list for an array and a dict for an object, so the    *)
(* same tree stands for the parsed data that from_dict and validate_json    *)
(* read. A value typed Any in the IR is tagged with its Python type: t is   *)
(* "str", "num", "list" or "tuple", v the sequence of its elements.         *)

JStr(str) == [j |-> "string", s |-> str, items |-> <<>>]
JNum(lit) == [j |-> "number", s |-> lit, items |-> <<>>]
JNull == [j |-> "null", s |-> "", items |-> <<>>]
JBool(b) == [j |-> IF b THEN "true" ELSE "false", s |-> "", items |-> <<>>]
JArr(elems) == [j |-> "array", s |-> "", items |-> elems]
JObj(members) == [j |-> "object", s |-> "", items |-> members]

ListVal(l) == [t |-> "list", v |-> l]
TupleVal(l) == [t |-> "tuple", v |-> l]

\* the IR classes with the fields the validation and the compiler leave alone
SelectionRuleWithParams(rule_id, params) == [rule_id |-> rule_id, params |-> params]

ReturnSpecWithFlags(include_context, include_frame, include_visibility_notes,
                    include_conflicts, conflict_policy, selection_rule) ==
    [include_context |-> include_context, include_frame |-> include_frame,
     include_visibility_notes |-> include_visibility_notes,
     include_conflicts |-> include_conflicts,
     conflict_policy |-> conflict_policy, selection_rule |-> selection_rule]

AbsenceSpecWithDeadline(expectation, scope, deadline_hours) ==
    [expectation |-> expectation, scope |-> scope, deadline_hours |-> deadline_hours]

\* json.dumps of an Optional[str], of an Optional[int], of a value typed Any
EncodeOptStr(x) == IF x = NULL THEN JNull ELSE JStr(x)
EncodeOptInt(o) == IF IsNone(o) THEN JNull ELSE JNum(ToString(The(o)))
EncodeAny(val) ==
    IF val.t = "str" THEN JStr(val.v[1])
    ELSE IF val.t = "num" THEN JNum(val.v[1])
    ELSE JArr([i \in DOMAIN val.v |-> JStr(val.v[i])])

EncodePredicate(p) ==
    JObj(<< <<"field", JStr(p.field)>>, <<"op", JStr(p.op)>>, <<"value", EncodeAny(p.value)>> >>)

EncodePredicates(preds) == JArr([i \in DOMAIN preds |-> EncodePredicate(preds[i])])

\* a dict of str to str, and a dict of str to Any
EncodeStrDict(d) == JObj([i \in DOMAIN d |-> <<d[i][1], JStr(d[i][2])>>])
EncodeAnyDict(d) == JObj([i \in DOMAIN d |-> <<d[i][1], EncodeAny(d[i][2])>>])

\* to_json: json.dumps(query, cls=EOQLEncoder), that is asdict(query) with
\* every enum as its value and every tuple as an array
to_json(qq) ==
    JObj(<<
      <<"target", JStr(qq.target)>>,
      <<"mode", JStr(qq.mode)>>,
      <<"visibility", JStr(qq.visibility)>>,
      <<"frame", JObj(<< <<"frame_id", JStr(qq.frame.frame_id)>>,
                         <<"version", EncodeOptStr(qq.frame.version)>> >>)>>,
      <<"time", JObj(<< <<"kind", JStr(qq.time.kind)>>,
                        <<"as_of", EncodeOptStr(qq.time.as_of)>>,
                        <<"start", EncodeOptStr(qq.time.start)>>,
                        <<"end", EncodeOptStr(qq.time.end)>> >>)>>,
      <<"pattern", JObj(<< <<"match", EncodeOptStr(qq.pattern.match)>>,
                           <<"where", EncodePredicates(qq.pattern.where)>> >>)>>,
      <<"grounding", JObj(<< <<"trace", JBool(qq.grounding.trace)>>,
                             <<"max_depth", JNum(ToString(qq.grounding.max_depth))>>,
                             <<"grounded_by", EncodePredicates(qq.grounding.grounded_by)>> >>)>>,
      <<"absence",
        IF IsNone(qq.absence) THEN JNull
        ELSE JObj(<< <<"expectation",
                       JObj(<< <<"expectation_id", JStr(The(qq.absence).expectation.expectation_id)>>,
                               <<"version", EncodeOptStr(The(qq.absence).expectation.version)>> >>)>>,
                     <<"scope", IF IsNone(The(qq.absence).scope) THEN JNull
                                ELSE EncodeStrDict(The(The(qq.absence).scope))>>,
                     <<"deadline_hours", EncodeOptInt(The(qq.absence).deadline_hours)>> >>)>>,
      <<"returns",
        JObj(<< <<"include_context", JBool(qq.returns.include_context)>>,
                <<"include_frame", JBool(qq.returns.include_frame)>>,
                <<"include_visibility_notes", JBool(qq.returns.include_visibility_notes)>>,
                <<"include_conflicts", JBool(qq.returns.include_conflicts)>>,
                <<"conflict_policy", JStr(qq.returns.conflict_policy)>>,
                <<"selection_rule",
                  IF IsNone(qq.returns.selection_rule) THEN JNull
                  ELSE JObj(<< <<"rule_id", JStr(The(qq.returns.selection_rule).rule_id)>>,
                               <<"params", EncodeAnyDict(The(qq.returns.selection_rule).params)>> >>)>> >>)>>
    >>)

\* key in data, data[key], data.get(key, default) for a parsed object
JHas(data, key) == data.j = "object" /\ \E i \in DOMAIN data.items : data.items[i][1] = key
JGet(data, key) == data.items[CHOOSE i \in DOMAIN data.items : data.items[i][1] = key][2]
JGetOr(data, key, default) == IF JHas(data, key) THEN JGet(data, key) ELSE default

\* truth value of parsed data
JTruthy(x) ==
    /\ x.j \notin {"null", "false"}
    /\ ~(x.j \in {"array", "object"} /\ x.items = <<>>)
    /\ ~(x.j = "string" /\ x.s = "")

\* json.loads of an Optional[str], an Optional[int], a bool, a value typed Any
DecodeOptStr(x) == IF x.j = "null" THEN NULL ELSE x.s
IntLiterals == 0..48
DecodeInt(x) == CHOOSE n \in IntLiterals : ToString(n) = x.s
DecodeOptInt(x) == IF x.j = "null" THEN None ELSE Some(DecodeInt(x))
DecodeBool(x) == x.j = "true"
DecodeAny(x) ==
    IF x.j = "string" THEN StrVal(x.s)
    ELSE IF x.j = "number" THEN NumVal(x.s)
    ELSE ListVal([i \in DOMAIN x.items |-> x.items[i].s])

\* tuple(Predicate(field=p["field"], op=p["op"], value=p["value"]) for p in ...)
DecodePredicates(x) ==
    [i \in DOMAIN x.items |->
        Predicate(JGet(x.items[i], "field").s, JGet(x.items[i], "op").s,
                  DecodeAny(JGet(x.items[i], "value")))]

DecodeStrDict(x) == [i \in DOMAIN x.items |-> <<x.items[i][1], x.items[i][2].s>>]
DecodeAnyDict(x) == [i \in DOMAIN x.items |-> <<x.items[i][1], DecodeAny(x.items[i][2])>>]

ValueError == [target |-> "ValueError"]

EmptyObject == JObj(<<>>)

\* the subscripts of from_dict that raise KeyError or TypeError
MissingKey(data) ==
    \/ \E k \in {"frame", "time", "target", "mode", "visibility"} : ~JHas(data, k)
    \/ ~JHas(JGet(data, "frame"), "frame_id")
    \/ ~JHas(JGet(data, "time"), "kind")
    \/ \E part \in {<<"pattern", "where">>, <<"grounding", "grounded_by">>} :
          LET preds == JGetOr(JGetOr(data, part[1], EmptyObject), part[2], JArr(<<>>))
          IN  \E i \in DOMAIN preds.items :
                  \E k \in {"field", "op", "value"} : ~JHas(preds.items[i], k)
    \/ /\ JTruthy(JGetOr(data, "absence", JNull))
       /\ \/ ~JHas(JGet(data, "absence"), "expectation")
          \/ ~JHas(JGet(JGet(data, "absence"), "expectation"), "expectation_id")
    \/ LET sr == JGetOr(JGetOr(data, "returns", EmptyObject), "selection_rule", JNull)
       IN  JTruthy(sr) /\ ~JHas(sr, "rule_id")

\* the enum constructors of from_dict that raise ValueError
NotInEnum(data) ==
    \/ JGet(JGet(data, "time"), "kind").s \notin TimeKind
    \/ JGetOr(JGetOr(data, "returns", EmptyObject), "conflict_policy", JStr("EXPOSE_ALL")).s
          \notin ConflictPolicy
    \/ JGet(data, "target").s \notin Target
    \/ JGet(data, "mode").s \notin Mode
    \/ JGet(data, "visibility").s \notin Visibility

from_dict(data) ==
    IF MissingKey(data) THEN ValueError
    ELSE IF NotInEnum(data) THEN ValueError
    ELSE
    LET frame_data == JGet(data, "frame")
        time_data == JGet(data, "time")
        pattern_data == JGetOr(data, "pattern", EmptyObject)
        grounding_data == JGetOr(data, "grounding", EmptyObject)
        absence_data == JGetOr(data, "absence", JNull)
        returns_data == JGetOr(data, "returns", EmptyObject)
        sr_data == JGetOr(returns_data, "selection_rule", JNull)
    IN  EOQLQuery(
          JGet(data, "target").s,
          JGet(data, "mode").s,
          JGet(data, "visibility").s,
          FrameRef(JGet(frame_data, "frame_id").s,
                   DecodeOptStr(JGetOr(frame_data, "version", JNull))),
          TimeWindow(JGet(time_data, "kind").s,
                     DecodeOptStr(JGetOr(time_data, "as_of", JNull)),
                     DecodeOptStr(JGetOr(time_data, "start", JNull)),
                     DecodeOptStr(JGetOr(time_data, "end", JNull))),
          Pattern(DecodeOptStr(JGetOr(pattern_data, "match", JNull)),
                  DecodePredicates(JGetOr(pattern_data, "where", JArr(<<>>)))),
          GroundingSpec(DecodeBool(JGetOr(grounding_data, "trace", JBool(FALSE))),
                        DecodeInt(JGetOr(grounding_data, "max_depth", JNum("0"))),
                        DecodePredicates(JGetOr(grounding_data, "grounded_by", JArr(<<>>)))),
          IF JTruthy(absence_data)
          THEN Some(AbsenceSpecWithDeadline(
                  ExpectationRef(JGet(JGet(absence_data, "expectation"), "expectation_id").s,
                                 DecodeOptStr(JGetOr(JGet(absence_data, "expectation"),
                                                     "version", JNull))),
                  IF JGetOr(absence_data, "scope", JNull).j = "null" THEN None
                  ELSE Some(DecodeStrDict(JGet(absence_data, "scope"))),
                  DecodeOptInt(JGetOr(absence_data, "deadline_hours", JNull))))
          ELSE None,
          ReturnSpecWithFlags(
              DecodeBool(JGetOr(returns_data, "include_context", JBool(TRUE))),
              DecodeBool(JGetOr(returns_data, "include_frame", JBool(TRUE))),
              DecodeBool(JGetOr(returns_data, "include_visibility_notes", JBool(TRUE))),
              DecodeBool(JGetOr(returns_data, "include_conflicts", JBool(TRUE))),
              JGetOr(returns_data, "conflict_policy", JStr("EXPOSE_ALL")).s,
              IF JTruthy(sr_data)
              THEN Some(SelectionRuleWithParams(
                      JGet(sr_data, "rule_id").s,
                      DecodeAnyDict(JGetOr(sr_data, "params", EmptyObject))))
              ELSE None))

\* from_json: from_dict(json.loads(json_str))
from_json(text) == from_dict(text)

\* an error message of validate_json: the text before the interpolation, and
\* the interpolated value ("" when the message has none)
JsonError(msg, arg) == [msg |-> msg, arg |-> arg]

\* for field in required: if field not in data: errors.append(...)
RECURSIVE MissingErrors(_, _, _)
MissingErrors(errs, data, required) ==
    IF required = <<>> THEN errs
    ELSE MissingErrors(
            AppendIf(errs, ~JHas(data, Head(required)),
                     JsonError("Missing required field: ", Head(required))),
            data, Tail(required))

\* if key in data: try Enum(data[key]) except ValueError: errors.append(...)
EnumError(errs, data, key, enum) ==
    AppendIf(errs, JHas(data, key) /\ ~(JGet(data, key).j = "string" /\ JGet(data, key).s \in enum),
             JsonError("Invalid " \o key \o ": ", IF JHas(data, key) THEN JGet(data, key).s ELSE ""))

FrameJsonErrors(errs, data) ==
    IF ~JHas(data, "frame") THEN errs
    ELSE IF JGet(data, "frame").j # "object"
    THEN Append(errs, JsonError("frame must be an object", ""))
    ELSE AppendIf(errs, ~JHas(JGet(data, "frame"), "frame_id"),
                  JsonError("frame.frame_id is required", ""))

TimeJsonErrors(errs, data) ==
    IF ~JHas(data, "time") THEN errs
    ELSE LET time_data == JGet(data, "time")
         IN  IF time_data.j # "object"
             THEN Append(errs, JsonError("time must be an object", ""))
             ELSE IF ~JHas(time_data, "kind")
             THEN Append(errs, JsonError("time.kind is required", ""))
             ELSE LET kind == JGet(time_data, "kind")
                  IN  IF ~(kind.j = "string" /\ kind.s \in TimeKind)
                      THEN Append(errs, JsonError("Invalid time.kind: ", kind.s))
                      ELSE IF kind.s = "AS_OF"
                      THEN AppendIf(errs, ~JTruthy(JGetOr(time_data, "as_of", JNull)),
                                    JsonError("time.as_of is required for AS_OF queries", ""))
                      ELSE AppendIf(
                             AppendIf(errs, ~JTruthy(JGetOr(time_data, "start", JNull)),
                                      JsonError("time.start is required for BETWEEN queries", "")),
                             ~JTruthy(JGetOr(time_data, "end", JNull)),
                             JsonError("time.end is required for BETWEEN queries", ""))

\* validate_json, for a text that json.loads parses into an object
validate_json(text) ==
    LET e1 == MissingErrors(<<>>, text, <<"target", "mode", "visibility", "frame", "time">>)
        e2 == EnumError(e1, text, "target", Target)
        e3 == EnumError(e2, text, "mode", Mode)
        e4 == EnumError(e3, text, "visibility", Visibility)
        e5 == FrameJsonErrors(e4, text)
        errs == TimeJsonErrors(e5, text)
    IN  [valid |-> errs = <<>>, errors |-> errs]

(* The queries serialized: valid ones, with and without pattern predicates, *)
(* grounded_by predicates, an absence spec and a selection rule with params *)

SerializedValues ==
    {StrVal("temperature"), NumVal("0.8"),
     ListVal(<<"temperature", "humidity">>), TupleVal(<<"temperature", "humidity">>)}

SerializedQueries ==
    {qq \in
       {EOQLQuery(t, "GIVEN", v, FrameRef("F_default", fv), tm,
                  Pattern(NULL, w), g, a, r) :
           t \in {"CLAIMS", "ABSENCES"}, v \in Visibility, fv \in {NULL, "1.0"},
           tm \in {asof("t1"), between("t1", "t2")},
           w \in {<<>>} \cup {<<Predicate("claim_type", "in", val)>> : val \in SerializedValues},
           g \in {GroundingSpec(FALSE, 0, <<>>),
                  GroundingSpec(TRUE, 3, <<Predicate("method", "=", StrVal("sensor"))>>)},
           a \in {None,
                  Some(AbsenceSpecWithDeadline(ExpectationRef("EXP_daily_check", NULL),
                                               None, None)),
                  Some(AbsenceSpecWithDeadline(ExpectationRef("EXP_daily_check", "1.0"),
                                               Some(<<<<"region", "north">>>>), Some(24)))},
           r \in {ReturnSpecWithFlags(TRUE, TRUE, TRUE, TRUE, "EXPOSE_ALL", None),
                  ReturnSpecWithFlags(FALSE, TRUE, FALSE, TRUE, "CLUSTER", None),
                  ReturnSpecWithFlags(TRUE, TRUE, TRUE, TRUE, "PICK_ONE",
                      Some(SelectionRuleWithParams("prefer_frame",
                                                   <<<<"frame", StrVal("official")>>>>)))}} :
       ValidationErrors(qq) = <<>>}

BaseSerialized ==
    EOQLQuery("CLAIMS", "GIVEN", "VISIBLE", FrameRef("F_default", "latest"), asof("t1"),
              Pattern(NULL, <<>>), GroundingSpec(FALSE, 0, <<>>), None,
              ReturnSpecWithFlags(TRUE, TRUE, TRUE, TRUE, "EXPOSE_ALL", None))

PickOneSerialized ==
    [BaseSerialized EXCEPT
        !.time = between("t1", "t2"),
        !.returns = ReturnSpecWithFlags(TRUE, TRUE, TRUE, TRUE, "PICK_ONE",
                        Some(SelectionRuleWithParams("highest_certainty", <<>>)))]

\* obj without its member key; obj with the member at path (one or two keys) set
JDrop(obj, key) == JObj(SelectSeq(obj.items, LAMBDA m : m[1] # key))
JSet(obj, key, val) ==
    JObj([i \in DOMAIN obj.items |->
            IF obj.items[i][1] = key THEN <<key, val>> ELSE obj.items[i]])
JSetAt(obj, path, val) ==
    IF Len(path) = 1 THEN JSet(obj, path[1], val)
    ELSE JSet(obj, path[1], JSet(JGet(obj, path[1]), path[2], val))

RECURSIVE JDropAll(_, _)
JDropAll(obj, keys) ==
    IF keys = {} THEN obj
    ELSE LET k == CHOOSE x \in keys : TRUE IN JDropAll(JDrop(obj, k), keys \ {k})

RequiredFields == {"target", "mode", "visibility", "frame", "time"}

EnumFields ==
    {<<"target">>, <<"mode">>, <<"visibility">>, <<"time", "kind">>,
     <<"returns", "conflict_policy">>}

\* the serialization of two queries, as written, with one enum-valued field
\* set to a value outside its enum, and with required fields taken out
ValidatedTexts ==
    LET written == {to_json(BaseSerialized), to_json(PickOneSerialized)}
        altered == written \cup {JSetAt(d, path, JStr("SOMETIMES")) : d \in written, path \in EnumFields}
    IN  {JDropAll(d, keys) : d \in altered, keys \in SUBSET RequiredFields}

InitSerialize ==
    /\ pc = "serialize"
    /\ call \in {[op |-> "roundtrip", query |-> qq] : qq \in SerializedQueries}
              \cup {[op |-> "validate_json", text |-> t] : t \in ValidatedTexts}
    /\ ret = NoCall
    /\ q = NoQuery /\ bstate = NoQuery /\ errors = <<>> /\ plan = NoPlan
    /\ StoreIdle /\ AbsIdle /\ ExecIdle /\ RegIdle

\* from_json(to_json(query))
RoundTrip ==
    /\ pc = "serialize"
    /\ call.op = "roundtrip"
    /\ ret = NoCall
    /\ ret' = [op |-> "roundtrip", query |-> from_json(to_json(call.query))]
    /\ UNCHANGED <<pc, call, pipeVars, storeVars, absVars, execVars, regVars>>

\* validate_json(text), and from_json(text) on the same text
ValidateJson ==
    /\ pc = "serialize"
    /\ call.op = "validate_json"
    /\ ret = NoCall
    /\ ret' = [op |-> "validate_json", result |-> validate_json(call.text),
               parsed |-> from_json(call.text)]
    /\ UNCHANGED <<pc, call, pipeVars, storeVars, absVars, execVars, regVars>>

NextSerialize ==
    \/ RoundTrip
    \/ ValidateJson

SpecSerialize == InitSerialize /\ [][NextSerialize]_vars

\* C24: round-trip law: for every valid query q, with pattern predicates,
\* grounded_by predicates, an absence spec with scope and deadline, and a
\* selection rule with params, from_json(to_json(q)) equals q.
C24_RoundTrip ==
    (pc = "serialize" /\ ret # NoCall /\ call.op = "roundtrip") => ret.query = call.query

\* the fields of a text that hold a value outside their enum
OutOfEnum(text) ==
    {path \in EnumFields :
        /\ JHas(text, path[1])
        /\ LET x == IF Len(path) = 1 THEN JGet(text, path[1])
                    ELSE JGet(JGet(text, path[1]), path[2])
           IN  x.s \notin (Target \cup Mode \cup Visibility \cup TimeKind \cup ConflictPolicy)}

\* C25: validate_json returns (False, errors) for every text that lacks one
\* of the required top-level fields target, mode, visibility, frame, time,
\* with an error naming each missing field, and for every text in which an
\* enum-valued field (target, mode, visibility, time.kind,
\* returns.conflict_policy) holds a value outside its enum.
C25_ValidateJsonRejects ==
    (pc = "serialize" /\ ret # NoCall /\ call.op = "validate_json") =>
        /\ \A f \in RequiredFields :
              ~JHas(call.text, f) =>
                  /\ ~ret.result.valid
                  /\ JsonError("Missing required field: ", f) \in Range(ret.result.errors)
        /\ OutOfEnum(call.text) # {} => ~ret.result.valid

====
